---- MODULE Spec2Model ----
(***************************************************************************)
(* Model of the Crossref JSONL processor (jsonl-processor/src):             *)
(*   - the record transformer of processor.js (pure functions),            *)
(*   - the streaming file processor processJsonlFile of processor.js,      *)
(*   - the batch orchestrator of process-all.js.                           *)
(* Three specifications share the variables: SpecRecord (one record        *)
(* through the transformer), SpecFile (one file through the stream         *)
(* pipeline) and Spec (the orchestrator over several runs).                *)
(***************************************************************************)
EXTENDS Integers, Sequences, FiniteSets, TLC

VARIABLES
    \* ---- record transformer (SpecRecord)
    rec,            \* the decoded input value (JSON.parse result)
    out,            \* the emitted record
    rphase,         \* "build" | "done" | "again"
    sample,         \* how rec was made, when it was drawn from the samples
    \* ---- streaming file processor (SpecFile)
    lines,          \* the lines of the decompressed source, in order
    inState,        \* input stream: "flowing" | "ended" | "error"
    rd,             \* lines readline has handed to transformStream.write
    tq,             \* lines the transform function has consumed
    processedCount, \* processor.js:317
    errorCount,     \* processor.js:318
    emitted,        \* chunks pushed by the transform, in order
    isFinished,     \* processor.js:319
    tEnded,         \* transformStream.end() has been called
    outFd,          \* destination write stream: "opening" | "open" | "failed"
    artifact,       \* the destination path exists in the output directory
    pipe,           \* pipeline(...): "running" | "ok" | "err"
    promise,        \* processJsonlFile's promise: "pending" | "resolved" | "rejected"
    result,         \* the value the promise resolved with
    jobEnd,         \* processFile's outcome for this file: "none" | "validating" | "failed"
    debugLog,       \* debugLogStream: "off" | "opening" | "open" | "ended" | "error"
    reported,       \* the line numbers of the per-line error messages, in order
    \* ---- batch orchestrator (Spec)
    cfg,            \* CONCURRENT_JOBS, RESUME_MODE, SPECIFIC_FILE
    kind,           \* per input ordinal: what its source file is like
    outDir,         \* per ordinal: state of <ordinal>_processed.jsonl.gz
    run,            \* number of the current invocation
    mainPc,         \* "init" | "running" | "finished" | "exited" | "crashed"
    exitCode,       \* <<>> while the process runs, then <<its exit status>>
    files,          \* the job list of this run (getFilesToProcess)
    processedFiles, \* the set processedFiles of getFilesToProcess in this run
    snap,           \* the ordinals that had an output artifact when this run began
    job,            \* per job index: its state
    disp,           \* per job index: the workers that dispatched it, in order
    isShuttingDown, \* process-all.js:253
    tracker,        \* completionTracker
    bar,            \* progressBar.current and progressBar.stats
    summary,        \* what the end of processFiles wrote to the log
    hist,           \* per ordinal: how its last job in an earlier run ended
    \* ---- file discovery on names (SpecDiscover)
    disc,           \* the listing of INPUT_DIR and the array allFiles made of it
    \* ---- schema generator (SpecSchema)
    gen             \* the loop of main in generate-schema.js

recVars   == <<rec, out, rphase, sample>>
fileVars  == <<lines, inState, rd, tq, processedCount, errorCount, emitted,
               isFinished, tEnded, outFd, artifact, pipe, promise, result, jobEnd,
               debugLog, reported>>
batchVars == <<cfg, kind, outDir, run, mainPc, exitCode, files, processedFiles, snap,
               job, disp, isShuttingDown, tracker, bar, summary, hist>>
toolVars  == <<disc, gen>>
vars      == <<recVars, fileVars, batchVars, toolVars>>

(***************************************************************************)
(* JSON values.  A string is a sequence of one-character strings, so that  *)
(* key.replace, key.includes, /^\d+$/, parseInt and padStart are computed  *)
(* character by character.  An object is the sequence of its entries in    *)
(* insertion order (the order of for..in and of JSON.stringify).           *)
(***************************************************************************)
Null      == [t |-> "null"]
Num(n)    == [t |-> "num", n |-> n]
Str(s)    == [t |-> "str", s |-> s]
Bool(b)   == [t |-> "bool", b |-> b]
Arr(v)    == [t |-> "arr", v |-> v]
Obj(v)    == [t |-> "obj", v |-> v]
Entry(k, v) == [k |-> k, v |-> v]

IsArr(x)    == x.t = "arr"
IsObj(x)    == x.t = "obj"
IsObject(x) == x.t \in {"arr", "obj"}          \* value !== null && typeof value === 'object'

\* Boolean(x)
Truthy(x) ==
    CASE x.t = "null" -> FALSE
      [] x.t = "bool" -> x.b
      [] x.t = "num"  -> x.n # 0
      [] x.t = "str"  -> Len(x.s) > 0
      [] OTHER        -> TRUE

MapSeq(s, F(_)) == [i \in 1..Len(s) |-> F(s[i])]

\* obj[key] !== undefined
HasKey(es, k) == \E i \in 1..Len(es) : es[i].k = k
GetKey(es, k) == es[CHOOSE i \in 1..Len(es) : es[i].k = k].v
\* obj[key] = v: an existing key keeps its place, a new one goes last
SetKey(es, k, v) ==
    IF HasKey(es, k)
    THEN [i \in 1..Len(es) |-> IF es[i].k = k THEN Entry(k, v) ELSE es[i]]
    ELSE Append(es, Entry(k, v))
\* delete obj[key]
DelKey(es, k) == LET Keep(e) == e.k # k IN SelectSeq(es, Keep)

\* key names of the source
K_dateparts == <<"d","a","t","e","-","p","a","r","t","s">>
K_date      == <<"d","a","t","e">>
K_year      == <<"y","e","a","r">>
K_yearstr   == <<"y","e","a","r","_","s","t","r","i","n","g">>
K_license   == <<"l","i","c","e","n","s","e">>
K_start     == <<"s","t","a","r","t">>
K_colid     == <<"c","o","l","i","d","e","n","t","i","f","i","e","r">>
K_published == <<"p","u","b","l","i","s","h","e","d">>
K_created   == <<"c","r","e","a","t","e","d">>
K_deposited == <<"d","e","p","o","s","i","t","e","d">>
K_indexed   == <<"i","n","d","e","x","e","d">>
K_issued    == <<"i","s","s","u","e","d">>
K_pubonline == K_published \o <<"-","o","n","l","i","n","e">>
K_pubprint  == K_published \o <<"-","p","r","i","n","t">>
\* parentKey = null: no key at all (distinct from every key)
NoKey       == <<"<null>">>

(***************************************************************************)
(* flattenNestedArrays, processor.js:107-157                               *)
(***************************************************************************)
\* for (const item of obj) { array: push each subItem; else push item }
RECURSIVE SpliceArrays(_)
SpliceArrays(s) ==
    IF Len(s) = 0 THEN <<>>
    ELSE (IF IsArr(s[1]) THEN s[1].v ELSE <<s[1]>>) \o SpliceArrays(Tail(s))

ContainsArrays(s) == \E i \in 1..Len(s) : IsArr(s[i])

RECURSIVE flattenNestedArrays(_, _)
flattenNestedArrays(obj, parentKey) ==
    IF IsArr(obj) THEN
        IF ContainsArrays(obj.v) THEN
            IF parentKey = K_dateparts THEN
                IF Len(obj.v) = 1 /\ IsArr(obj.v[1]) THEN obj.v[1] ELSE obj
            ELSE
                LET flattened == SpliceArrays(obj.v)
                IN  Arr([i \in 1..Len(flattened) |->
                            flattenNestedArrays(flattened[i], NoKey)])
        ELSE Arr([i \in 1..Len(obj.v) |-> flattenNestedArrays(obj.v[i], NoKey)])
    ELSE IF IsObj(obj) THEN
        Obj([i \in 1..Len(obj.v) |->
                Entry(obj.v[i].k, flattenNestedArrays(obj.v[i].v, obj.v[i].k))])
    ELSE obj

(***************************************************************************)
(* Strings and numbers as the engine converts them                         *)
(***************************************************************************)
Digits == <<"0","1","2","3","4","5","6","7","8","9">>
IsDigit(c)  == \E i \in 1..10 : Digits[i] = c
DigitVal(c) == (CHOOSE i \in 1..10 : Digits[i] = c) - 1
IsSpace(c)  == c \in {" ", "\t"}

\* String(n) of an integer
RECURSIVE NatToChars(_)
NatToChars(n) ==
    IF n < 10 THEN <<Digits[n + 1]>>
    ELSE NatToChars(n \div 10) \o <<Digits[(n % 10) + 1]>>
NumToChars(n) == IF n < 0 THEN <<"-">> \o NatToChars(0 - n) ELSE NatToChars(n)

RECURSIVE JoinComma(_)
\* String(v): what parseInt sees of a value that is not a string
RECURSIVE ToStringJS(_)
ToStringJS(v) ==
    CASE v.t = "num"  -> NumToChars(v.n)
      [] v.t = "str"  -> v.s
      [] v.t = "null" -> <<"n","u","l","l">>
      [] v.t = "bool" -> IF v.b THEN <<"t","r","u","e">> ELSE <<"f","a","l","s","e">>
      [] v.t = "arr"  -> JoinComma(v.v)
      [] OTHER        -> <<"[","o","b","j","e","c","t"," ","O","b","j","e","c","t","]">>
\* Array.prototype.join(','): a null element gives the empty string
JoinComma(s) ==
    IF Len(s) = 0 THEN <<>>
    ELSE (IF s[1].t = "null" THEN <<>> ELSE ToStringJS(s[1]))
         \o (IF Len(s) > 1 THEN <<",">> \o JoinComma(Tail(s)) ELSE <<>>)

NaN      == [nan |-> TRUE,  n |-> 0]
Int10(n) == [nan |-> FALSE, n |-> n]

RECURSIVE SkipSpaces(_)
SkipSpaces(s) == IF Len(s) > 0 /\ IsSpace(s[1]) THEN SkipSpaces(Tail(s)) ELSE s

\* the value of the longest digit prefix of s, acc digits already read
RECURSIVE DigitPrefix(_, _, _)
DigitPrefix(s, acc, seen) ==
    IF Len(s) > 0 /\ IsDigit(s[1])
    THEN DigitPrefix(Tail(s), acc * 10 + DigitVal(s[1]), TRUE)
    ELSE IF seen THEN Int10(acc) ELSE NaN

\* parseInt(chars, 10)
ParseIntChars(s0) ==
    LET s    == SkipSpaces(s0)
        neg  == Len(s) > 0 /\ s[1] = "-"
        body == IF Len(s) > 0 /\ s[1] \in {"-", "+"} THEN Tail(s) ELSE s
        r    == DigitPrefix(body, 0, FALSE)
    IN  IF r.nan THEN NaN ELSE Int10(IF neg THEN 0 - r.n ELSE r.n)

\* parseInt(value, 10)
ParseInt(v) == ParseIntChars(ToStringJS(v))

\* s.padStart(n, '0')
RECURSIVE PadStart(_, _)
PadStart(s, n) == IF Len(s) >= n THEN s ELSE PadStart(<<"0">> \o s, n)

(***************************************************************************)
(* convertDatePartsToISOString, processor.js:164-196.  The result is the   *)
(* JSON value Null (the code's null) or a string.                          *)
(***************************************************************************)
convertDatePartsToISOString(dateParts) ==
    IF ~IsArr(dateParts) \/ Len(dateParts.v) = 0 THEN Null
    ELSE
        LET parts    == IF IsArr(dateParts.v[1]) /\ Len(dateParts.v) = 1
                        THEN dateParts.v[1].v ELSE dateParts.v
            \* parts[0] of an empty array is undefined: parseInt gives NaN
            yearNum  == IF Len(parts) > 0 THEN ParseInt(parts[1]) ELSE NaN
            monthNum == IF Len(parts) > 1 THEN ParseInt(parts[2]) ELSE Int10(1)
            dayNum   == IF Len(parts) > 2 THEN ParseInt(parts[3]) ELSE Int10(1)
        IN  IF yearNum.nan THEN Null
            ELSE Str(PadStart(NumToChars(yearNum.n), 4) \o <<"-">>
                     \o PadStart(NumToChars(IF monthNum.nan THEN 1 ELSE monthNum.n), 2)
                     \o <<"-">>
                     \o PadStart(NumToChars(IF dayNum.nan THEN 1 ELSE dayNum.n), 2))

(***************************************************************************)
(* processDateFields, processor.js:224-302.  The code mutates in place;    *)
(* here each step returns the entries after the step.                      *)
(***************************************************************************)
\* if (Array.isArray(dateParts) && dateParts.length === 1 && Array.isArray(dateParts[0]))
UnwrapDateParts(dp) ==
    IF IsArr(dp) /\ Len(dp.v) = 1 /\ IsArr(dp.v[1]) THEN dp.v[1] ELSE dp

\* value['date-parts'] is truthy (an array has no such property)
HasDateParts(v) ==
    /\ IsObj(v)
    /\ HasKey(v.v, K_dateparts)
    /\ Truthy(GetKey(v.v, K_dateparts))

\* lines 229-245
DatePartsStep(es) ==
    IF HasKey(es, K_dateparts) THEN
        LET isoDate == convertDatePartsToISOString(UnwrapDateParts(GetKey(es, K_dateparts)))
            es1     == IF Truthy(isoDate) THEN SetKey(es, K_date, isoDate) ELSE es
        IN  DelKey(es1, K_dateparts)
    ELSE es

dateFields == <<K_published, K_created, K_deposited, K_indexed, K_issued,
                K_pubonline, K_pubprint>>

\* DateFieldStep without the delete of line 267: a field whose date cannot
\* be made is left in place
DateFieldStep_KeepsField(es, field) ==
    IF HasKey(es, field) /\ HasDateParts(GetKey(es, field)) THEN
        LET isoDate == convertDatePartsToISOString(
                           UnwrapDateParts(GetKey(GetKey(es, field).v, K_dateparts)))
        IN  IF Truthy(isoDate) THEN SetKey(es, field, isoDate) ELSE es
    ELSE es

\* lines 251-270, for one field
DateFieldStep(es, field) ==
    IF HasKey(es, field) /\ HasDateParts(GetKey(es, field)) THEN
        LET isoDate == convertDatePartsToISOString(
                           UnwrapDateParts(GetKey(GetKey(es, field).v, K_dateparts)))
        IN  IF Truthy(isoDate) THEN SetKey(es, field, isoDate) ELSE DelKey(es, field)
    ELSE es

\* for (const field of dateFields), fields i..7
RECURSIVE DateFieldsFrom(_, _)
DateFieldsFrom(es, i) ==
    IF i > Len(dateFields) THEN es
    ELSE DateFieldsFrom(DateFieldStep(es, dateFields[i]), i + 1)

\* lines 276-290, for one entry of obj.license
LicenseEntry(license) ==
    IF /\ IsObj(license)
       /\ HasKey(license.v, K_start)
       /\ HasDateParts(GetKey(license.v, K_start))
    THEN
        LET isoDate == convertDatePartsToISOString(
                           UnwrapDateParts(GetKey(GetKey(license.v, K_start).v, K_dateparts)))
        IN  IF Truthy(isoDate) THEN Obj(SetKey(license.v, K_start, isoDate))
            ELSE Obj(DelKey(license.v, K_start))
    ELSE license

\* lines 274-292
LicenseStep(es) ==
    IF HasKey(es, K_license) /\ IsArr(GetKey(es, K_license)) THEN
        SetKey(es, K_license, Arr(MapSeq(GetKey(es, K_license).v, LicenseEntry)))
    ELSE es

RECURSIVE processDateFields(_)
processDateFields(obj) ==
    IF IsArr(obj) THEN
        Arr([i \in 1..Len(obj.v) |-> processDateFields(obj.v[i])])
    ELSE IF IsObj(obj) THEN
        LET es == LicenseStep(DateFieldsFrom(DatePartsStep(obj.v), 1))
        IN  Obj([i \in 1..Len(es) |-> Entry(es[i].k, processDateFields(es[i].v))])
    ELSE obj

(***************************************************************************)
(* fixBigQueryIssues, processor.js:62-100                                  *)
(***************************************************************************)
\* /\d+/.test(s): the pattern without its anchors
AllDigits_Unanchored(s) == \E i \in 1..Len(s) : IsDigit(s[i])

\* /^\d+$/.test(s)
AllDigits(s) == Len(s) > 0 /\ \A i \in 1..Len(s) : IsDigit(s[i])

\* obj.year_string = yearValue; delete obj.year
MoveYear(es, yearValue) == DelKey(SetKey(es, K_yearstr, yearValue), K_year)

\* lines 67-90
YearStep(es) ==
    IF HasKey(es, K_year) THEN
        LET yearValue == GetKey(es, K_year)
        IN  IF yearValue.t = "str" /\ ~AllDigits(yearValue.s) THEN MoveYear(es, yearValue)
            ELSE IF yearValue.t = "str" THEN
                LET yearInt == ParseIntChars(yearValue.s)
                IN  IF ~yearInt.nan THEN SetKey(es, K_year, Num(yearInt.n))
                    ELSE MoveYear(es, yearValue)
            ELSE es
    ELSE es

RECURSIVE fixBigQueryIssues(_)
fixBigQueryIssues(obj) ==
    IF IsArr(obj) THEN
        Arr([i \in 1..Len(obj.v) |-> fixBigQueryIssues(obj.v[i])])
    ELSE IF IsObj(obj) THEN
        LET es == YearStep(obj.v)
        IN  Obj([i \in 1..Len(es) |-> Entry(es[i].k, fixBigQueryIssues(es[i].v))])
    ELSE obj

(***************************************************************************)
(* cleanNullValues, processor.js:23-56                                     *)
(***************************************************************************)
\* s.includes(sub)
Includes(s, sub) ==
    \E i \in 1..(Len(s) - Len(sub) + 1) : SubSeq(s, i, i + Len(sub) - 1) = sub

\* key === 'colidentifier' in place of the two tests of lines 40-41
CannotBeNull_ExactKey(key) == key = K_colid

\* key.includes('colidentifier') || (key.startsWith('*') && key.endsWith('*'))
CannotBeNull(key) ==
    \/ Includes(key, K_colid)
    \/ (Len(key) > 0 /\ key[1] = "*" /\ key[Len(key)] = "*")

RECURSIVE cleanNullValues(_)
RECURSIVE CleanEntries(_)
\* for (const key in obj), lines 34-52
CleanEntries(es) ==
    IF Len(es) = 0 THEN <<>>
    ELSE LET key   == es[1].k
             value == es[1].v
         IN  (IF value.t = "null"
              THEN (IF CannotBeNull(key) THEN <<Entry(key, Str(<<>>))>> ELSE <<>>)
              ELSE <<Entry(key, cleanNullValues(value))>>)
             \o CleanEntries(Tail(es))

cleanNullValues(obj) ==
    IF IsArr(obj) THEN
        LET NotNull(item) == item.t # "null"
            kept == SelectSeq(obj.v, NotNull)
        IN  Arr([i \in 1..Len(kept) |-> cleanNullValues(kept[i])])
    ELSE IF IsObj(obj) THEN Obj(CleanEntries(obj.v))
    ELSE obj

(***************************************************************************)
(* replaceKeyDashes, processor.js:202-217                                  *)
(***************************************************************************)
\* key.replace('-', '_'): only the first hyphen is replaced
ReplaceDashes_FirstOnly(key) ==
    [i \in 1..Len(key) |->
        IF key[i] = "-" /\ (\A j \in 1..(i - 1) : key[j] # "-") THEN "_" ELSE key[i]]

\* key.replace(/-/g, '_')
ReplaceDashes(key) == [i \in 1..Len(key) |-> IF key[i] = "-" THEN "_" ELSE key[i]]

RECURSIVE replaceKeyDashes(_)
RECURSIVE RenameEntries(_, _)
\* for (const key in obj) result[newKey] = replaceKeyDashes(obj[key])
RenameEntries(es, acc) ==
    IF Len(es) = 0 THEN acc
    ELSE RenameEntries(Tail(es),
                       SetKey(acc, ReplaceDashes(es[1].k), replaceKeyDashes(es[1].v)))

replaceKeyDashes(obj) ==
    IF IsArr(obj) THEN Arr([i \in 1..Len(obj.v) |-> replaceKeyDashes(obj.v[i])])
    ELSE IF IsObj(obj) THEN Obj(RenameEntries(obj.v, <<>>))
    ELSE obj

(***************************************************************************)
(* JSON.stringify, as the characters of the line.  Of the characters that  *)
(* JSON.stringify escapes, the alphabet of the model has the line feed.    *)
(***************************************************************************)
RECURSIVE Escape(_)
Escape(s) ==
    IF Len(s) = 0 THEN <<>>
    ELSE (IF s[1] = "\n" THEN <<"\\", "n">> ELSE <<s[1]>>) \o Escape(Tail(s))
RECURSIVE Stringify(_)
RECURSIVE StringifyItems(_)
RECURSIVE StringifyEntries(_)
StringifyItems(s) ==
    IF Len(s) = 0 THEN <<>>
    ELSE Stringify(s[1]) \o (IF Len(s) > 1 THEN <<",">> \o StringifyItems(Tail(s)) ELSE <<>>)
StringifyEntries(es) ==
    IF Len(es) = 0 THEN <<>>
    ELSE <<"\"">> \o Escape(es[1].k) \o <<"\"", ":">> \o Stringify(es[1].v)
         \o (IF Len(es) > 1 THEN <<",">> \o StringifyEntries(Tail(es)) ELSE <<>>)
Stringify(v) ==
    CASE v.t = "num"  -> NumToChars(v.n)
      [] v.t = "str"  -> <<"\"">> \o Escape(v.s) \o <<"\"">>
      [] v.t = "null" -> <<"n","u","l","l">>
      [] v.t = "bool" -> IF v.b THEN <<"t","r","u","e">> ELSE <<"f","a","l","s","e">>
      [] v.t = "arr"  -> <<"[">> \o StringifyItems(v.v) \o <<"]">>
      [] OTHER        -> <<"{">> \o StringifyEntries(v.v) \o <<"}">>

(***************************************************************************)
(* The safety pass of transformStream.transform, processor.js:375-407      *)
(***************************************************************************)
\* JSON.stringify(lastFixObj, replacer): the replacer sees a value before
\* its elements are serialised, and its result's elements are then visited
RECURSIVE ReplacerPass(_)
ReplacerPass(value) ==
    LET r == IF IsArr(value) /\ ContainsArrays(value.v)
             THEN Arr(SpliceArrays(value.v))          \* [].concat(...value)
             ELSE value
    IN  IF IsArr(r) THEN Arr([i \in 1..Len(r.v) |-> ReplacerPass(r.v[i])])
        ELSE IF IsObj(r) THEN
            Obj([i \in 1..Len(r.v) |-> Entry(r.v[i].k, ReplacerPass(r.v[i].v))])
        ELSE r

\* jsonStr.includes('[[')
NeedsLastFix(standardizedObj) == Includes(Stringify(standardizedObj), <<"[", "[">>)

\* lines 367-372: the object that enters the rename stage
BeforeRename(obj) ==
    cleanNullValues(fixBigQueryIssues(processDateFields(flattenNestedArrays(obj, NoKey))))

\* lines 367-373: the transformations in the code's order
Standardize(obj) ==
    replaceKeyDashes(cleanNullValues(fixBigQueryIssues(processDateFields(
        flattenNestedArrays(obj, NoKey)))))

\* lines 383 and 402: the chunk pushed for a record
OutputText(obj) == Stringify(obj) \o <<"\n">>

\* lines 364-439: the record whose serialisation is the emitted line
TransformRecord(obj) ==
    LET standardizedObj == Standardize(obj)
    IN  IF NeedsLastFix(standardizedObj) THEN ReplacerPass(standardizedObj)
        ELSE standardizedObj

(***************************************************************************)
(* SpecRecord: one decoded record through the transformer.  The input is   *)
(* built bottom-up from an atom by wrapping it in arrays and objects, so   *)
(* every nesting shape up to MaxDepth is an input.                         *)
(***************************************************************************)
MaxDepth == 4

K_x   == <<"x">>
Atoms == {Num(1), Null}
Keys  == {K_x, K_dateparts}

Max(a, b) == IF a > b THEN a ELSE b

\* nesting depth of a value
RECURSIVE Depth(_)
RECURSIVE DepthOfItems(_)
RECURSIVE DepthOfEntries(_)
DepthOfItems(s)    == IF Len(s) = 0 THEN 0 ELSE Max(Depth(s[1]), DepthOfItems(Tail(s)))
DepthOfEntries(es) == IF Len(es) = 0 THEN 0 ELSE Max(Depth(es[1].v), DepthOfEntries(Tail(es)))
Depth(v) ==
    IF IsArr(v) THEN 1 + DepthOfItems(v.v)
    ELSE IF IsObj(v) THEN 1 + DepthOfEntries(v.v)
    ELSE 0

\* some array of v has an array as a direct element
RECURSIVE HasNestedArray(_)
HasNestedArray(v) ==
    IF IsArr(v) THEN ContainsArrays(v.v) \/ \E i \in 1..Len(v.v) : HasNestedArray(v.v[i])
    ELSE IF IsObj(v) THEN \E i \in 1..Len(v.v) : HasNestedArray(v.v[i].v)
    ELSE FALSE

\* some object of v has the key k
RECURSIVE MentionsKey(_, _)
MentionsKey(v, k) ==
    IF IsArr(v) THEN \E i \in 1..Len(v.v) : MentionsKey(v.v[i], k)
    ELSE IF IsObj(v) THEN
        HasKey(v.v, k) \/ \E i \in 1..Len(v.v) : MentionsKey(v.v[i].v, k)
    ELSE FALSE

NoSample   == [fam |-> "none"]
RecIdle    == rec = Null /\ out = Null /\ rphase = "idle" /\ sample = NoSample
RecordOnly == UNCHANGED <<fileVars, batchVars, toolVars>>

CanGrow == rphase = "build" /\ sample = NoSample /\ Depth(rec) < MaxDepth

\* [rec]
WrapArray == CanGrow /\ rec' = Arr(<<rec>>) /\ UNCHANGED <<out, rphase, sample>> /\ RecordOnly
\* [a, rec]
ConsAtom  == CanGrow /\ \E a \in Atoms : rec' = Arr(<<a, rec>>) /\ UNCHANGED <<out, rphase, sample>> /\ RecordOnly
\* [rec, a]
SnocAtom  == CanGrow /\ \E a \in Atoms : rec' = Arr(<<rec, a>>) /\ UNCHANGED <<out, rphase, sample>> /\ RecordOnly
\* {k: rec}
WrapField == CanGrow /\ \E k \in Keys : rec' = Obj(<<Entry(k, rec)>>) /\ UNCHANGED <<out, rphase, sample>> /\ RecordOnly

\* transformStream.transform on the parsed line, processor.js:364-439
Transform ==
    /\ rphase = "build"
    /\ out' = TransformRecord(rec)
    /\ rphase' = "done"
    /\ UNCHANGED <<rec, sample>>
    /\ RecordOnly

\* the emitted line is given to the transformer again
Retransform ==
    /\ rphase = "done"
    /\ rec' = out
    /\ out' = TransformRecord(out)
    /\ rphase' = "again"
    /\ UNCHANGED sample
    /\ RecordOnly

(***************************************************************************)
(* Sample records.  Besides the records grown from an atom, SpecRecord     *)
(* takes records of the Crossref conventions the transformer is written    *)
(* for; sample says how such a record was made: a family of content, put   *)
(* at one of the places the code looks at, at one of three nestings.       *)
(***************************************************************************)
\* the nestings: the record itself, {"x": o}, {"x": [o]}
Wraps == {"top", "obj", "arr"}
Wrap(w, o) ==
    CASE w = "top" -> o
      [] w = "obj" -> Obj(<<Entry(K_x, o)>>)
      [] OTHER     -> Obj(<<Entry(K_x, Arr(<<o>>))>>)
\* obj[k], Null when there is none
Field(o, k) == IF IsObj(o) /\ HasKey(o.v, k) THEN GetKey(o.v, k) ELSE Null
\* the object put at nesting w, read back from the value v
Unwrap(w, v) ==
    CASE w = "top" -> v
      [] w = "obj" -> Field(v, K_x)
      [] OTHER     -> LET a == Field(v, K_x)
                      IN  IF IsArr(a) /\ Len(a.v) = 1 THEN a.v[1] ELSE Null

K_n == <<"n">>
\* ---- date-parts inputs (processor.js:164-196, 224-302)
ParseableYears   == {Num(2020), Num(476), Str(<<"1", "9", "9", "9">>), Num(12345)}
UnparseableYears == {Null, Str(<<"n", ".", "d", ".">>)}
Months == {Num(3), Num(11), Str(<<"x">>), Null}
Days   == {Num(7), Null}
\* [[Y]], [[Y,M]], [[Y,M,D]], [Y,M,D], [], [[]]
DateInputs ==
    LET Ys == ParseableYears \cup UnparseableYears
    IN  {[shape |-> "Y", y |-> y, m |-> Null, d |-> Null] : y \in Ys}
        \cup {[shape |-> "YM", y |-> y, m |-> m, d |-> Null] : y \in Ys, m \in Months}
        \cup {[shape |-> sh, y |-> y, m |-> m, d |-> d] :
                 sh \in {"YMD", "flat"}, y \in Ys, m \in Months, d \in Days}
        \cup {[shape |-> sh, y |-> Null, m |-> Null, d |-> Null] :
                 sh \in {"empty", "emptyNested"}}
DateParts(dp) ==
    CASE dp.shape = "Y"    -> Arr(<<Arr(<<dp.y>>)>>)
      [] dp.shape = "YM"   -> Arr(<<Arr(<<dp.y, dp.m>>)>>)
      [] dp.shape = "YMD"  -> Arr(<<Arr(<<dp.y, dp.m, dp.d>>)>>)
      [] dp.shape = "flat" -> Arr(<<dp.y, dp.m, dp.d>>)
      [] dp.shape = "empty" -> Arr(<<>>)
      [] OTHER             -> Arr(<<Arr(<<>>)>>)
\* the places of a date: the object's own date-parts, a named sub-object,
\* license[].start
DatePlaces == {K_dateparts, K_license} \cup {dateFields[i] : i \in 1..Len(dateFields)}
DateObject(place, v) ==
    LET holder == Obj(<<Entry(K_dateparts, v)>>)
    IN  CASE place = K_dateparts -> Obj(<<Entry(K_n, Num(1)), Entry(K_dateparts, v)>>)
          [] place = K_license   ->
                Obj(<<Entry(K_n, Num(1)),
                      Entry(K_license, Arr(<<Obj(<<Entry(K_start, holder)>>)>>))>>)
          [] OTHER               -> Obj(<<Entry(K_n, Num(1)), Entry(place, holder)>>)
DateSamples ==
    {[fam |-> "date", wrap |-> w, place |-> p, dp |-> dp] :
        w \in Wraps, p \in DatePlaces, dp \in DateInputs}

\* ---- keys with hyphens (processor.js:202-217): a key and the key it is
\* to be emitted as
KeyPairs ==
    { <<<<"a", "-", "b">>, <<"a", "_", "b">>>>,
      <<<<"-">>, <<"_">>>>,
      <<<<"a", "-", "-", "b", "-", "c", "-">>, <<"a", "_", "_", "b", "_", "c", "_">>>>,
      <<<<"c", "o", "n", "t", "e", "n", "t", "-", "d", "o", "m", "a", "i", "n">>,
        <<"c", "o", "n", "t", "e", "n", "t", "_", "d", "o", "m", "a", "i", "n">>>>,
      <<K_pubonline, K_published \o <<"_", "o", "n", "l", "i", "n", "e">>>>,
      <<K_x, K_x>> }
\* {"n":1, k: {k: 2}}
KeyObject(k) == Obj(<<Entry(K_n, Num(1)), Entry(k, Obj(<<Entry(k, Num(2))>>))>>)
KeySamples ==
    {[fam |-> "key", wrap |-> w, key |-> kp[1], renamed |-> kp[2]] :
        w \in Wraps, kp \in KeyPairs}

\* ---- null values (processor.js:23-56)
K_a      == <<"a">>
K_list   == <<"l", "i", "s", "t">>
NullKeys ==
    { K_a, K_colid, <<"x">> \o K_colid \o <<"y">>,
      <<"*", "a", "*">>, <<"*">>, <<"*", "a">>, <<"a", "-", "b">> }
\* {"n":1, k: null, "list": [null, 2, null, {k: null}]}
NullObject(k) ==
    Obj(<<Entry(K_n, Num(1)), Entry(k, Null),
          Entry(K_list, Arr(<<Null, Num(2), Null, Obj(<<Entry(k, Null)>>)>>))>>)
NullSamples == {[fam |-> "null", wrap |-> w, key |-> k] : w \in Wraps, k \in NullKeys}

\* ---- year values (processor.js:66-90): a value of year, and for a string
\* of digits the integer it stands for
NumericYears ==
    { <<Str(<<"2", "0", "2", "0">>), Num(2020)>>,
      <<Str(<<"0", "4", "7", "6">>), Num(476)>>,
      <<Str(<<"7">>), Num(7)>> }
NonNumericYears ==
    { Str(<<"2", "0", "2", "0", "-", "2", "0", "2", "1">>),
      Str(<<"n", ".", "d", ".">>), Str(<<>>), Str(<<" ", "2", "0", "2", "0">>),
      Str(<<"2", "0", "2", "0", "a">>) }
OtherYears ==
    { Num(2020), Bool(TRUE), Bool(FALSE), Arr(<<Num(2020)>>), Arr(<<>>),
      Obj(<<Entry(K_a, Num(2020))>>), Null }
\* {"n":1, "year": v}
YearObject(v) == Obj(<<Entry(K_n, Num(1)), Entry(K_year, v)>>)
YearSamples ==
    {[fam |-> "year", wrap |-> w, year |-> ny[1], int |-> ny[2]] :
        w \in Wraps, ny \in NumericYears}
    \cup {[fam |-> "year", wrap |-> w, year |-> v, int |-> Null] :
        w \in Wraps, v \in NonNumericYears \cup OtherYears}

\* {key: 1, renamed: 2}: a key with a hyphen beside its underscore form
PairObject(k, r) == Obj(<<Entry(k, Num(1)), Entry(r, Num(2))>>)
PairSamples ==
    {[fam |-> "pair", wrap |-> w, key |-> kp[1], renamed |-> kp[2]] :
        w \in Wraps, kp \in {p \in KeyPairs : p[1] # p[2]}}

Samples == DateSamples \cup KeySamples \cup NullSamples \cup YearSamples \cup PairSamples
Build(sm) ==
    CASE sm.fam = "date" -> Wrap(sm.wrap, DateObject(sm.place, DateParts(sm.dp)))
      [] sm.fam = "key"  -> Wrap(sm.wrap, KeyObject(sm.key))
      [] sm.fam = "null" -> Wrap(sm.wrap, NullObject(sm.key))
      [] sm.fam = "year" -> Wrap(sm.wrap, YearObject(sm.year))
      [] sm.fam = "pair" -> Wrap(sm.wrap, PairObject(sm.key, sm.renamed))

(***************************************************************************)
(* SpecFile: processJsonlFile (processor.js:313-522) on one file, with the *)
(* part of processFile (process-all.js:267-308) that awaits it.            *)
(*                                                                         *)
(* A line of the decompressed source is one of:                            *)
(*   "empty"    the empty line                                             *)
(*   "ws"       a line of white space only                                 *)
(*   "json"     a line that JSON.parse decodes to val                      *)
(*   "garbage"  a line on which JSON.parse throws                          *)
(*   "deep"     a line that parses and on which a transformation throws    *)
(*              (RangeError of the recursion on a very deep value)         *)
(***************************************************************************)
MaxLines == 3

Line(raw, val) == [raw |-> raw, val |-> val]
SampleRecords ==
    { Obj(<<Entry(K_x, Arr(<<Arr(<<Num(1)>>), Arr(<<Num(2)>>)>>))>>),
      Obj(<<Entry(<<"a", "-", "b">>, Null), Entry(K_year, Str(<<"2", "0">>))>>),
      Obj(<<Entry(K_x, Str(<<"a", "\n", "b">>))>>) }
LineSet ==
    {Line(r, Null) : r \in {"empty", "ws", "garbage", "deep"}}
        \cup {Line("json", v) : v \in SampleRecords}
SeqsUpTo(S, n) == UNION {[1..k -> S] : k \in 0..n}

\* line.toString().trim() is the empty string
IsBlank(line) == line.raw \in {"empty", "ws"}
\* a non-blank line on which the try block throws
IsBadLine(line) == line.raw \in {"garbage", "deep"}


\* LineStep with processedCount++ ahead of the parse: a line that throws is
\* counted as processed too
LineStep_CountsBadAsProcessed(st, line) ==
    IF IsBlank(line) THEN st
    ELSE IF line.raw = "json" THEN
        [processedCount |-> st.processedCount + 1,
         errorCount     |-> st.errorCount,
         emitted        |-> Append(st.emitted, TransformRecord(line.val))]
    ELSE [processedCount |-> st.processedCount + 1,
          errorCount     |-> st.errorCount + 1,
          emitted        |-> st.emitted]

\* LineStep without the blank-line test: JSON.parse('') throws and the line
\* is counted as an error
LineStep_CountsBlank(st, line) ==
    IF line.raw = "json" THEN
        [processedCount |-> st.processedCount + 1,
         errorCount     |-> st.errorCount,
         emitted        |-> Append(st.emitted, TransformRecord(line.val))]
    ELSE [processedCount |-> st.processedCount,
          errorCount     |-> st.errorCount + 1,
          emitted        |-> st.emitted]

\* LineStep with the chunk put ahead of those already pushed
LineStep_EmitsAhead(st, line) ==
    IF IsBlank(line) THEN st
    ELSE IF line.raw = "json" THEN
        [processedCount |-> st.processedCount + 1,
         errorCount     |-> st.errorCount,
         emitted        |-> <<TransformRecord(line.val)>> \o st.emitted]
    ELSE [processedCount |-> st.processedCount,
          errorCount     |-> st.errorCount + 1,
          emitted        |-> st.emitted]

\* transformStream's transform function on one line (processor.js:356-452):
\* the counters and the output after it, given them before it
LineStep(st, line) ==
    IF IsBlank(line) THEN st                                \* callback(null, '')
    ELSE IF line.raw = "json" THEN
        [processedCount |-> st.processedCount + 1,
         errorCount     |-> st.errorCount,
         emitted        |-> Append(st.emitted, TransformRecord(line.val))]
    ELSE [processedCount |-> st.processedCount,             \* catch: callback(null, '')
          errorCount     |-> st.errorCount + 1,
          emitted        |-> st.emitted]

FileIdle ==
    /\ lines = <<>> /\ inState = "idle" /\ rd = 0 /\ tq = 0
    /\ processedCount = 0 /\ errorCount = 0 /\ emitted = <<>>
    /\ isFinished = FALSE /\ tEnded = FALSE /\ outFd = "idle" /\ artifact = FALSE
    /\ pipe = "idle" /\ promise = "idle" /\ result = [processedCount |-> 0, errorCount |-> 0]
    /\ jobEnd = "idle" /\ debugLog = "idle" /\ reported = <<>>

\* processor.js:316-350 and 456-507: the state when processJsonlFile returns
\* its promise
FileStart ==
    /\ lines \in SeqsUpTo(LineSet, MaxLines)
    /\ inState = "flowing" /\ rd = 0 /\ tq = 0
    /\ processedCount = 0 /\ errorCount = 0 /\ emitted = <<>>
    /\ isFinished = FALSE /\ tEnded = FALSE /\ outFd = "opening" /\ artifact = FALSE
    /\ pipe = "running" /\ promise = "pending"
    /\ result = [processedCount |-> 0, errorCount |-> 0]
    /\ jobEnd = "none"
    /\ debugLog \in {"off", "opening"}      \* processor.js:345-350
    /\ reported = <<>>

FileOnly == UNCHANGED <<recVars, batchVars, toolVars>>

\* A settled promise's continuation (processFile after its await) runs as a
\* microtask, before the event loop delivers any further stream event.
MicrotaskPending == promise \in {"resolved", "rejected"} /\ jobEnd = "none"
\* debugLogStream has no 'error' listener: an 'error' event on it is an
\* uncaught exception, which ends the process
Crashed          == debugLog = "error"
EventLoopTurn    == ~MicrotaskPending /\ ~Crashed
\* options.debugMode, processor.js:314
debugMode        == debugLog \notin {"off", "idle"}

\* cleanup(), processor.js:462-473: rl.close() emits 'close', whose handler
\* ends the transform stream
CleanupEffect ==
    /\ isFinished' = TRUE /\ tEnded' = TRUE
    /\ debugLog' = IF debugLog \in {"opening", "open"} THEN "ended" ELSE debugLog
\* reject(err) / resolve(v) on a promise that may be settled already
Settle(how) == IF promise = "pending" THEN how ELSE promise

\* rl.on('line'), processor.js:476-478
ReadLine ==
    /\ EventLoopTurn
    /\ inState = "flowing" /\ ~isFinished /\ rd < Len(lines)
    /\ rd' = rd + 1
    /\ UNCHANGED <<lines, inState, tq, processedCount, errorCount, emitted, isFinished,
                   tEnded, outFd, artifact, pipe, promise, result, jobEnd>>
    /\ UNCHANGED <<debugLog, reported>>
    /\ FileOnly

\* end of the source: rl.on('close'), processor.js:480-484
InputEnd ==
    /\ EventLoopTurn
    /\ inState = "flowing" /\ ~isFinished /\ rd = Len(lines)
    /\ inState' = "ended"
    /\ tEnded' = TRUE
    /\ UNCHANGED <<lines, rd, tq, processedCount, errorCount, emitted, isFinished,
                   outFd, artifact, pipe, promise, result, jobEnd>>
    /\ UNCHANGED <<debugLog, reported>>
    /\ FileOnly

\* inputStream.on('error'), processor.js:510-514 (a decompression error)
InputError ==
    /\ EventLoopTurn
    /\ inState = "flowing"
    /\ inState' = "error"
    /\ CleanupEffect
    /\ promise' = Settle("rejected")
    /\ UNCHANGED <<lines, rd, tq, processedCount, errorCount, emitted,
                   outFd, artifact, pipe, result, jobEnd>>
    /\ UNCHANGED reported
    /\ FileOnly

\* the lines on which the transform function writes to debugLogStream in
\* debug mode, processor.js:378-381, 397-399 and 444-447 (the year report of
\* 413-430 reads the raw text of the line, which the model does not keep)
DebugWrites(line) ==
    \/ IsBadLine(line)
    \/ line.raw = "json" /\ NeedsLastFix(Standardize(line.val))
\* debugLogStream.write: a write after end() is an 'error' event unless the
\* stream has been destroyed by then
DebugLogAfter(line) ==
    IF debugLog = "ended" /\ DebugWrites(line) THEN {"ended", "error"} ELSE {debugLog}

\* the line number in the message of the catch, processor.js:442 and 445
ErrorLineNumber(count) == count + 1

\* the transform function on the next buffered line, processor.js:356-452
TransformLine ==
    /\ EventLoopTurn
    /\ pipe = "running" /\ tq < rd
    /\ \E st \in {LineStep([processedCount |-> processedCount, errorCount |-> errorCount,
                              emitted |-> emitted], lines[tq + 1])} :
          /\ processedCount' = st.processedCount
          /\ errorCount' = st.errorCount
          /\ emitted' = st.emitted
    /\ tq' = tq + 1
    /\ debugLog' \in DebugLogAfter(lines[tq + 1])
    /\ reported' = IF IsBadLine(lines[tq + 1])
                   THEN Append(reported, ErrorLineNumber(processedCount))
                   ELSE reported
    /\ UNCHANGED <<lines, inState, rd, isFinished, tEnded, outFd, artifact, pipe,
                   promise, result, jobEnd>>
    /\ FileOnly

\* fs.createWriteStream(debugPath), processor.js:347-348: the open completes
DebugLogOpen ==
    /\ EventLoopTurn
    /\ debugLog = "opening"
    /\ debugLog' = "open"
    /\ UNCHANGED <<lines, inState, rd, tq, processedCount, errorCount, emitted,
                   isFinished, tEnded, outFd, artifact, pipe, promise, result, jobEnd>>
    /\ UNCHANGED reported
    /\ FileOnly

\* the open of the debug log fails
DebugLogOpenFail ==
    /\ EventLoopTurn
    /\ debugLog = "opening"
    /\ debugLog' = "error"
    /\ UNCHANGED <<lines, inState, rd, tq, processedCount, errorCount, emitted,
                   isFinished, tEnded, outFd, artifact, pipe, promise, result, jobEnd>>
    /\ UNCHANGED reported
    /\ FileOnly

\* fs.createWriteStream(outputPath), processor.js:342: the open completes
\* later and creates the file
OutputOpen ==
    /\ EventLoopTurn
    /\ outFd = "opening"
    /\ outFd' = "open"
    /\ artifact' = TRUE
    /\ UNCHANGED <<lines, inState, rd, tq, processedCount, errorCount, emitted,
                   isFinished, tEnded, pipe, promise, result, jobEnd>>
    /\ UNCHANGED <<debugLog, reported>>
    /\ FileOnly

\* pipeline callback with err, processor.js:492-501
PipelineErrorEffect ==
    /\ pipe' = "err"
    /\ CleanupEffect
    /\ artifact' = FALSE                       \* fs.unlinkSync, errors ignored
    /\ promise' = Settle("rejected")

\* the open of the destination fails
OutputOpenFail ==
    /\ EventLoopTurn
    /\ outFd = "opening" /\ pipe = "running"
    /\ outFd' = "failed"
    /\ PipelineErrorEffect
    /\ UNCHANGED <<lines, inState, rd, tq, processedCount, errorCount, emitted,
                   result, jobEnd>>
    /\ UNCHANGED reported
    /\ FileOnly

\* a write to the destination fails
WriteError ==
    /\ EventLoopTurn
    /\ outFd = "open" /\ pipe = "running"
    /\ PipelineErrorEffect
    /\ UNCHANGED <<lines, inState, rd, tq, processedCount, errorCount, emitted,
                   outFd, result, jobEnd>>
    /\ UNCHANGED reported
    /\ FileOnly

\* pipeline callback without err, processor.js:502-505: every stream of the
\* pipeline has finished
PipelineFinish ==
    /\ EventLoopTurn
    /\ pipe = "running" /\ tEnded /\ tq = rd /\ outFd = "open"
    /\ pipe' = "ok"
    /\ promise' = Settle("resolved")
    /\ result' = IF promise = "pending"
                 THEN [processedCount |-> processedCount, errorCount |-> errorCount]
                 ELSE result
    /\ UNCHANGED <<lines, inState, rd, tq, processedCount, errorCount, emitted,
                   isFinished, tEnded, outFd, artifact, jobEnd>>
    /\ UNCHANGED <<debugLog, reported>>
    /\ FileOnly


\* processFile returning success without awaiting validateGzipFile
AwaitResolved_NoValidation ==
    /\ promise = "resolved" /\ jobEnd = "none"
    /\ jobEnd' = "succeeded"
    /\ UNCHANGED <<lines, inState, rd, tq, processedCount, errorCount, emitted,
                   isFinished, tEnded, outFd, artifact, pipe, promise, result>>
    /\ UNCHANGED <<debugLog, reported>>
    /\ FileOnly

\* processFile after the await resolved, process-all.js:281-295
AwaitResolved ==
    /\ promise = "resolved" /\ jobEnd = "none"
    /\ jobEnd' = "validating"
    /\ UNCHANGED <<lines, inState, rd, tq, processedCount, errorCount, emitted,
                   isFinished, tEnded, outFd, artifact, pipe, promise, result>>
    /\ UNCHANGED <<debugLog, reported>>
    /\ FileOnly

\* processFile's catch, process-all.js:299-307
CatchEffect ==
    /\ artifact' = FALSE                       \* existsSync, then unlinkSync
    /\ jobEnd' = "failed"

AwaitRejected ==
    /\ promise = "rejected" /\ jobEnd = "none"
    /\ CatchEffect
    /\ UNCHANGED <<lines, inState, rd, tq, processedCount, errorCount, emitted,
                   isFinished, tEnded, outFd, pipe, promise, result>>
    /\ UNCHANGED <<debugLog, reported>>
    /\ FileOnly

\* validateGzipFile, process-all.js:169-205: the artifact is read back and
\* must decompress to at least one byte
ValidationPasses == artifact /\ Len(emitted) > 0

\* process-all.js:295-298
ValidateOk ==
    /\ ~Crashed
    /\ jobEnd = "validating" /\ ValidationPasses
    /\ jobEnd' = "succeeded"
    /\ UNCHANGED <<lines, inState, rd, tq, processedCount, errorCount, emitted,
                   isFinished, tEnded, outFd, artifact, pipe, promise, result>>
    /\ UNCHANGED <<debugLog, reported>>
    /\ FileOnly

\* process-all.js:295, 299-307
ValidateFail ==
    /\ ~Crashed
    /\ jobEnd = "validating" /\ ~ValidationPasses
    /\ CatchEffect
    /\ UNCHANGED <<lines, inState, rd, tq, processedCount, errorCount, emitted,
                   isFinished, tEnded, outFd, pipe, promise, result>>
    /\ UNCHANGED <<debugLog, reported>>
    /\ FileOnly

(***************************************************************************)
(* Spec: the batch orchestrator of process-all.js over several runs of     *)
(* the program on the same directories.                                    *)
(*                                                                         *)
(* The input directory holds <o>.jsonl.gz for every ordinal o.  kind[o]    *)
(* says what that file is like:                                            *)
(*   "good"        decompresses, and at least one line gives a record      *)
(*   "empty"       decompresses, and no line gives a record                *)
(*   "corrupt"     the gzip stream is damaged: the gunzip stream errors    *)
(*   "unreadable"  the file cannot be read: fs.createReadStream errors     *)
(* outDir[o] is the state of <o>_processed.jsonl.gz:                       *)
(*   "absent" | "partial" (created, write not finished) |                  *)
(*   "written" (write finished) | "validated" (validateGzipFile passed)    *)
(* Job indices are the code's, from 0; files[i + 1] is the file of job i.  *)
(***************************************************************************)
MaxFiles == 3
MaxRuns  == 2
MaxCpus  == 3
PoolFiles == 4

\* the ordinals o of the files <o>.jsonl.gz of the input directory
Ordinals == DOMAIN kind
Kinds    == {"good", "empty", "corrupt", "unreadable"}

\* one job more than CPUs instead of one less
CONCURRENT_JOBS_PlusOne == Max(1, cfg.cpus + 1)

\* the pool as large as the number of CPUs
CONCURRENT_JOBS_AllCpus == Max(1, cfg.cpus)

\* process-all.js:11
CONCURRENT_JOBS == Max(1, cfg.cpus - 1)

\* .sort((a, b) => numA - numB), process-all.js:224-228
RECURSIVE SortedSeq(_)
SortedSeq(S) ==
    IF S = {} THEN <<>>
    ELSE LET m == CHOOSE x \in S : \A y \in S : x <= y
         IN  <<m>> \o SortedSeq(S \ {m})

\* process-all.js:232-241: the inputs whose output artifact is in OUTPUT_DIR
ResumeSnapshot == {o \in Ordinals : outDir[o] # "absent"}


\* getFilesToProcess without the resume filter
getFilesToProcess_NoResume ==
    IF cfg.specific # 0 THEN
        IF cfg.specific \in Ordinals THEN <<cfg.specific>> ELSE <<>>
    ELSE SortedSeq(Ordinals)

\* process-all.js:208-250
getFilesToProcess ==
    IF cfg.specific # 0 THEN
        IF cfg.specific \in Ordinals THEN <<cfg.specific>> ELSE <<>>
    ELSE IF cfg.resume THEN SortedSeq(Ordinals \ ResumeSnapshot)
    ELSE SortedSeq(Ordinals)

N         == Len(files)
JobIds    == 0..(N - 1)
FileOf(i) == files[i + 1]
Terminal  == {"succeeded", "failed"}
InFlight(j) == {i \in DOMAIN j : j[i] \in {"processing", "validating"}}

\* process-all.js:323
Sequential == CONCURRENT_JOBS <= 1 \/ N = 1

\* what processJsonlFile resolves with for the file o
Counts(o) ==
    IF kind[o] = "empty" THEN [processedCount |-> 0, errorCount |-> 1]
    ELSE [processedCount |-> o, errorCount |-> 0]

NoJobs    == [i \in {} |-> "pending"]
NoDispatch == [i \in {} |-> <<>>]
ZeroStats == [current |-> 0, successful |-> 0, failed |-> 0,
              totalRecords |-> 0, totalErrors |-> 0]
ZeroTracker == [completed |-> 0, successful |-> 0, failed |-> 0,
                totalRecords |-> 0, totalErrors |-> 0]

\* ProgressBar.finish (124-165), which does nothing unless SHOW_PROGRESS
\* (line 16) is set, and the final log entry of processFiles (412)
NoSummary == [report |-> <<>>, final |-> <<>>]
Summary(showProgress, stats, n) ==
    [report |-> IF showProgress
                THEN <<stats.successful, stats.failed, stats.totalRecords,
                       stats.totalErrors>>
                ELSE <<>>,
     final  |-> <<stats.successful, n, stats.failed>>]

BatchIdle ==
    /\ cfg = [cpus |-> 1, resume |-> TRUE, specific |-> 0]
    /\ kind = [o \in 1..MaxFiles |-> "good"]
    /\ outDir = [o \in Ordinals |-> "absent"]
    /\ run = 0 /\ mainPc = "idle" /\ exitCode = <<>> /\ files = <<>> /\ processedFiles = {} /\ snap = {}
    /\ job = NoJobs /\ disp = NoDispatch /\ isShuttingDown = FALSE
    /\ tracker = ZeroTracker /\ bar = ZeroStats /\ summary = NoSummary
    /\ hist = [o \in Ordinals |-> "none"]

BatchStart ==
    /\ cfg \in [cpus : {1, MaxCpus}, resume : BOOLEAN, specific : {0, 2}]
    /\ kind \in [1..MaxFiles -> Kinds]
    /\ outDir = [o \in Ordinals |-> "absent"]
    /\ run = 1 /\ mainPc = "init" /\ exitCode = <<>> /\ files = <<>> /\ processedFiles = {} /\ snap = {}
    /\ job = NoJobs /\ disp = NoDispatch /\ isShuttingDown = FALSE
    /\ tracker = ZeroTracker /\ bar = ZeroStats /\ summary = NoSummary
    /\ hist = [o \in Ordinals |-> "none"]

\* a larger input directory, resume mode on, no specific file
PoolStart ==
    /\ cfg \in [cpus : {1, MaxCpus}, resume : {TRUE}, specific : {0}]
    /\ kind \in [1..PoolFiles -> Kinds]
    /\ outDir = [o \in Ordinals |-> "absent"]
    /\ run = 1 /\ mainPc = "init" /\ exitCode = <<>> /\ files = <<>> /\ processedFiles = {} /\ snap = {}
    /\ job = NoJobs /\ disp = NoDispatch /\ isShuttingDown = FALSE
    /\ tracker = ZeroTracker /\ bar = ZeroStats /\ summary = NoSummary
    /\ hist = [o \in Ordinals |-> "none"]

BatchOnly == UNCHANGED <<recVars, fileVars, toolVars>>


\* the dispatch guard without the test of isShuttingDown
MayDispatch_IgnoresFlag(i, n) == i < n

\* the guard of a dispatch: process-all.js:327-328 and 358
MayDispatch(i, n) == i < n /\ ~isShuttingDown

\* every continuation going on with the next index of the list
NextIndex_PlusOne(i) == i + 1

\* the sequential loop stepping by two
NextIndex_SkipsOne(i) == IF Sequential THEN i + 2 ELSE i + CONCURRENT_JOBS

\* the index the continuation of job i goes on with: the loop's i++ (327)
\* or processNext(index + CONCURRENT_JOBS) (383, 395)
NextIndex(i) == IF Sequential THEN i + 1 ELSE i + CONCURRENT_JOBS

\* processFile(file) up to its await (268-280): the streams are created and
\* the destination is opened for writing
DispatchIn(st, i, w) ==
    [job  |-> [st.job EXCEPT ![i] = "processing"],
     dir  |-> [st.dir EXCEPT ![FileOf(i)] = "partial"],
     disp |-> [st.disp EXCEPT ![i] = Append(@, w)]]

\* the worker that runs job i: the loop, or the chain processNext(k) of
\* lines 400-402 that came to i
WorkerOf(i) == disp[i][Len(disp[i])]

\* job i has ended as `how` leaving its artifact as `art`; the continuation
\* dispatches the next job of the loop or of the worker chain
AfterJob(i, how, art) ==
    LET st == [job  |-> [job EXCEPT ![i] = how],
               dir  |-> [outDir EXCEPT ![FileOf(i)] = art],
               disp |-> disp]
    IN  IF MayDispatch(NextIndex(i), N)
        THEN DispatchIn(st, NextIndex(i), WorkerOf(i)) ELSE st

\* processFiles returns once the loop is left or every worker chain has
\* ended (405-412); main then ends the log (421-422)
PcAfter(j) == IF InFlight(j) = {} THEN "finished" ELSE "running"
\* the summary after a job's bookkeeping left the jobs as j and the
\* progress bar's numbers as stats
SummaryAfter(j, stats, showProgress) ==
    IF InFlight(j) = {} THEN Summary(showProgress, stats, N) ELSE summary
\* main returns with nothing left to run: the process ends with status 0
ExitAfter(j) == IF InFlight(j) = {} THEN <<0>> ELSE <<>>

\* main() -> processFiles(): lines 312-325, 341-351, 400-402
Start ==
    /\ mainPc = "init"
    /\ snap' = ResumeSnapshot
    /\ processedFiles' = IF cfg.specific = 0 /\ cfg.resume THEN ResumeSnapshot ELSE {}
    /\ files' = getFilesToProcess
    /\ LET n     == Len(files')
           ids   == 0..(n - 1)
           seq   == CONCURRENT_JOBS <= 1 \/ n = 1
           first == IF seq THEN {0} ELSE {i \in ids : i < CONCURRENT_JOBS}
       IN  /\ job' = [i \in ids |-> IF i \in first THEN "processing" ELSE "pending"]
           /\ disp' = [i \in ids |-> IF i \in first THEN <<i>> ELSE <<>>]
           /\ outDir' = [o \in Ordinals |->
                           IF \E i \in ids \cap first : files'[i + 1] = o
                           THEN "partial" ELSE outDir[o]]
           /\ mainPc' = IF n = 0 THEN "finished" ELSE "running"
           /\ exitCode' = IF n = 0 THEN <<0>> ELSE <<>>
    /\ tracker' = ZeroTracker
    /\ bar' = ZeroStats
    /\ summary' = NoSummary
    /\ UNCHANGED <<cfg, kind, run, isShuttingDown, hist>>
    /\ BatchOnly

\* getFilesToProcess throws: fs.readdirSync(INPUT_DIR) at 222 fails (the
\* directory is missing or cannot be listed).  The exception leaves
\* processFiles before any job exists and reaches main's catch (423-427).
StartFails_ExitsZero ==
    /\ mainPc = "init"
    /\ cfg.specific = 0
    /\ mainPc' = "crashed"
    /\ exitCode' = <<0>>
    /\ UNCHANGED <<cfg, kind, outDir, run, files, processedFiles, snap, job, disp,
                   isShuttingDown, tracker, bar, summary, hist>>
    /\ BatchOnly

StartFails ==
    /\ mainPc = "init"
    /\ cfg.specific = 0
    /\ mainPc' = "crashed"
    /\ exitCode' = <<1>>                       \* process.exit(1), line 426
    /\ UNCHANGED <<cfg, kind, outDir, run, files, processedFiles, snap, job, disp,
                   isShuttingDown, tracker, bar, summary, hist>>
    /\ BatchOnly

\* the caller's bookkeeping after processFile returned for job i:
\* lines 331-337 (sequential) or 364-383 (pooled)
Returned(i, success, art) ==
    LET a == AfterJob(i, IF success THEN "succeeded" ELSE "failed", art)
        c == IF success THEN Counts(FileOf(i))
             ELSE [processedCount |-> 0, errorCount |-> 0]      \* line 306
        t == [tracker EXCEPT !.completed = @ + 1,
                             !.successful = IF success THEN @ + 1 ELSE @,
                             !.failed = IF success THEN @ ELSE @ + 1,
                             !.totalRecords = @ + c.processedCount,
                             !.totalErrors = @ + c.errorCount]
    IN  /\ job' = a.job
        /\ outDir' = a.dir
        /\ disp' = a.disp
        /\ IF Sequential
           THEN /\ tracker' = tracker
                /\ bar' = [bar EXCEPT !.current = i + 1,
                                      !.successful = IF success THEN @ + 1 ELSE @,
                                      !.failed = IF success THEN @ ELSE @ + 1]
           ELSE /\ tracker' = t
                /\ bar' = [bar EXCEPT !.current = t.completed,
                                      !.successful = t.successful,
                                      !.failed = t.failed]
        /\ mainPc' = PcAfter(a.job)
        /\ exitCode' = ExitAfter(a.job)
        /\ \E showProgress \in BOOLEAN :
              summary' = SummaryAfter(a.job, bar', showProgress)

\* an exception leaves processFile for job i (fs.unlinkSync threw at 304):
\* the sequential loop has no handler, so main's catch ends the process
\* (423-427); processNext catches it (384-396)
Thrown(i, art) ==
    IF Sequential
    THEN /\ job' = [job EXCEPT ![i] = "failed"]
         /\ outDir' = [outDir EXCEPT ![FileOf(i)] = art]
         /\ mainPc' = "crashed"
         /\ exitCode' = <<1>>                  \* process.exit(1), line 426
         /\ UNCHANGED <<tracker, bar, disp, summary>>
    ELSE LET a == AfterJob(i, "failed", art)
             t == [tracker EXCEPT !.failed = @ + 1, !.completed = @ + 1]
         IN  /\ job' = a.job
             /\ outDir' = a.dir
             /\ disp' = a.disp
             /\ tracker' = t
             /\ bar' = [bar EXCEPT !.current = t.completed,
                                   !.successful = t.successful,
                                   !.failed = t.failed]
             /\ mainPc' = PcAfter(a.job)
             /\ exitCode' = ExitAfter(a.job)
             /\ \E showProgress \in BOOLEAN :
                   summary' = SummaryAfter(a.job, bar', showProgress)

JobFrame == UNCHANGED <<cfg, kind, run, files, processedFiles, snap, isShuttingDown, hist>>

\* processJsonlFile resolved (277); progressBar.update with the counts
\* (284-289); validateGzipFile is started (295)
JobWritten(i) ==
    /\ mainPc = "running" /\ job[i] = "processing"
    /\ kind[FileOf(i)] \in {"good", "empty"}
    /\ job' = [job EXCEPT ![i] = "validating"]
    /\ outDir' = [outDir EXCEPT ![FileOf(i)] = "written"]
    /\ bar' = [bar EXCEPT !.totalRecords = @ + Counts(FileOf(i)).processedCount,
                          !.totalErrors = @ + Counts(FileOf(i)).errorCount]
    /\ UNCHANGED <<tracker, mainPc, exitCode, disp, summary>>
    /\ JobFrame /\ BatchOnly

\* validateGzipFile resolved (295-298)
JobValidated(i) ==
    /\ mainPc = "running" /\ job[i] = "validating"
    /\ kind[FileOf(i)] = "good"
    /\ Returned(i, TRUE, "validated")
    /\ JobFrame /\ BatchOnly

\* validateGzipFile rejected with 'Empty gzip file' (196); the catch removes
\* the artifact (302-305), and unlinkSync may throw
JobValidationFailed(i) ==
    /\ mainPc = "running" /\ job[i] = "validating"
    /\ kind[FileOf(i)] = "empty"
    /\ \E unlinkThrows \in BOOLEAN :
          IF unlinkThrows THEN Thrown(i, "written") ELSE Returned(i, FALSE, "absent")
    /\ JobFrame /\ BatchOnly

\* the gunzip stream of the source errored (processor.js:510-514);
\* processFile's catch (299-307) finds the artifact and removes it, or
\* finds none because the destination is not open yet ("late": see
\* SpecFile), or unlinkSync throws
JobInputError(i) ==
    /\ mainPc = "running" /\ job[i] = "processing"
    /\ kind[FileOf(i)] = "corrupt"
    /\ \E oc \in {"unlinked", "late", "throws"} :
          CASE oc = "unlinked" -> Returned(i, FALSE, "absent")
            [] oc = "late"     -> Returned(i, FALSE, "partial")
            [] OTHER           -> Thrown(i, "partial")
    /\ JobFrame /\ BatchOnly

\* the read stream of the source errored: it has no 'error' listener
\* (processor.js:336-338), the event is an uncaught exception
JobReadError(i) ==
    /\ mainPc = "running" /\ job[i] = "processing"
    /\ kind[FileOf(i)] = "unreadable"
    /\ mainPc' = "crashed"
    /\ exitCode' = <<1>>                       \* uncaught exception
    /\ UNCHANGED <<job, outDir, tracker, bar, disp, summary>>
    /\ JobFrame /\ BatchOnly

\* a write to the destination failed: the pipeline callback removes the
\* artifact and rejects (processor.js:492-501)
JobWriteError(i) ==
    /\ mainPc = "running" /\ job[i] = "processing"
    /\ Returned(i, FALSE, "absent")
    /\ JobFrame /\ BatchOnly

\* SIGINT / SIGTERM: cleanup(), process-all.js:254-264
Signal ==
    /\ mainPc = "running" /\ ~isShuttingDown
    /\ isShuttingDown' = TRUE
    /\ UNCHANGED <<cfg, kind, outDir, run, mainPc, exitCode, files, processedFiles,
                   snap, job, disp, tracker, bar, summary, hist>>
    /\ BatchOnly

\* setTimeout(() => process.exit(0), 1000), process-all.js:259
ExitTimer ==
    /\ mainPc = "running" /\ isShuttingDown
    /\ mainPc' = "exited"
    /\ exitCode' = <<0>>                       \* process.exit(0), line 259
    /\ UNCHANGED <<cfg, kind, outDir, run, files, processedFiles, snap, job, disp,
                   isShuttingDown, tracker, bar, summary, hist>>
    /\ BatchOnly

\* how the job of ordinal o ended in the run that is over
EndOf(o) ==
    IF \E i \in JobIds : FileOf(i) = o /\ job[i] # "pending"
    THEN LET i == CHOOSE i \in JobIds : FileOf(i) = o
         IN  IF job[i] \in Terminal THEN job[i] ELSE "cut"
    ELSE hist[o]

\* the program is started again on the same directories
NewRun ==
    /\ mainPc \in {"finished", "exited", "crashed"}
    /\ run < MaxRuns
    /\ run' = run + 1
    /\ mainPc' = "init" /\ exitCode' = <<>>
    /\ hist' = [o \in Ordinals |-> EndOf(o)]
    /\ files' = <<>> /\ processedFiles' = {} /\ snap' = {}
    /\ job' = NoJobs /\ disp' = NoDispatch
    /\ isShuttingDown' = FALSE
    /\ tracker' = ZeroTracker /\ bar' = ZeroStats /\ summary' = NoSummary
    /\ UNCHANGED <<cfg, kind, outDir>>
    /\ BatchOnly

(***************************************************************************)
(* SpecDiscover: the listing of getFilesToProcess on file names,           *)
(* process-all.js:221-228.  A name is the sequence of its characters;      *)
(* disc.dir is what fs.readdirSync(INPUT_DIR) returned, in the order it    *)
(* returned it.                                                            *)
(***************************************************************************)
MaxNames == 3

Suffix == <<".", "j", "s", "o", "n", "l", ".", "g", "z">>
FileNames ==
    { <<"9">> \o Suffix, <<"1", "0">> \o Suffix, <<"2">> \o Suffix,
      <<"x">> \o Suffix,
      <<"1", ".", "j", "s", "o", "n", "l">>, <<"3", ".", "g", "z">> }
\* the sequences of at most n different elements of S
Listings(S, n) ==
    {d \in SeqsUpTo(S, n) : \A i, j \in 1..Len(d) : i # j => d[i] # d[j]}

\* file.endsWith(suffix)
EndsWith(file, suffix) ==
    /\ Len(file) >= Len(suffix)
    /\ SubSeq(file, Len(file) - Len(suffix) + 1, Len(file)) = suffix
\* file.split('.')[0]
RECURSIVE FirstPart(_)
FirstPart(file) ==
    IF Len(file) = 0 \/ file[1] = "." THEN <<>>
    ELSE <<file[1]>> \o FirstPart(Tail(file))

\* the comparator of process-all.js:224-228 as Array.prototype.sort reads
\* it: numA - numB, and a result of NaN is taken as +0
SortCompare(a, b) ==
    LET numA == ParseIntChars(FirstPart(a))
        numB == ParseIntChars(FirstPart(b))
    IN  IF numA.nan \/ numB.nan THEN 0 ELSE numA.n - numB.n

\* Array.prototype.sort is stable: x goes behind the last element that the
\* comparator does not place after it
RECURSIVE InsertAt(_, _, _)
InsertAt(sorted, x, j) ==
    IF j >= 1 /\ SortCompare(sorted[j], x) > 0 THEN InsertAt(sorted, x, j - 1)
    ELSE SubSeq(sorted, 1, j) \o <<x>> \o SubSeq(sorted, j + 1, Len(sorted))
RECURSIVE SortFrom(_, _)
SortFrom(sorted, rest) ==
    IF Len(rest) = 0 THEN sorted
    ELSE SortFrom(InsertAt(sorted, rest[1], Len(sorted)), Tail(rest))
SortNames(names) == SortFrom(<<>>, names)

NoDisc == [pc |-> "idle", dir |-> <<>>, allFiles |-> <<>>]
DiscStart ==
    \E d \in Listings(FileNames, MaxNames) :
        disc = [pc |-> "readdir", dir |-> d, allFiles |-> <<>>]
DiscOnly == UNCHANGED <<recVars, fileVars, batchVars, gen>>

\* .filter(file => file.endsWith('.jsonl.gz')), process-all.js:223
FilterNames ==
    /\ disc.pc = "readdir"
    /\ disc' = [disc EXCEPT !.pc = "filtered",
                            !.allFiles = LET Keep(file) == EndsWith(file, Suffix)
                                         IN  SelectSeq(disc.dir, Keep)]
    /\ DiscOnly

\* .sort((a, b) => ...), process-all.js:224-228
SortFiltered ==
    /\ disc.pc = "filtered"
    /\ disc' = [disc EXCEPT !.pc = "sorted", !.allFiles = SortNames(disc.allFiles)]
    /\ DiscOnly

(***************************************************************************)
(* SpecSchema: the loop of main over the processed files,                  *)
(* generate-schema.js:262-328.  gen.ended holds how each file of the loop  *)
(* ended, in order.                                                        *)
(***************************************************************************)
MaxSchemaFiles == 3

NoReport == <<>>
NoGen == [pc |-> "idle", files |-> 0, i |-> 0, lastSuccessfulFile |-> -1,
          ended |-> <<>>, report |-> NoReport]
\* generate-schema.js:248-265: files is not empty when the loop begins
GenStart ==
    \E n \in 1..MaxSchemaFiles :
        gen = [pc |-> "loop", files |-> n, i |-> 0, lastSuccessfulFile |-> -1,
               ended |-> <<>>, report |-> NoReport]
GenOnly == UNCHANGED <<recVars, fileVars, batchVars, disc>>

\* how one pass of the loop body can end
Updated    == {"updated",      \* 285-289: generateSchema resolved
               "fixed"}        \* 297-299: fixIncompatibleSchema returned true
NotUpdated == {"fewLines",     \* 277-281: fewer than 10 valid lines
               "notFixed",     \* 300-306: the fix returned false or threw
               "schemaError",  \* 307-309: another schema generation error
               "fileError"}    \* 311-313: processGzipFile threw

\* one pass of the for loop, generate-schema.js:265-319
AfterPass(g, how) ==
    [g EXCEPT !.i = g.i + 1,
              !.lastSuccessfulFile = IF how \in Updated THEN g.i
                                     ELSE g.lastSuccessfulFile,
              !.ended = Append(g.ended, how)]

PassUpdates ==
    /\ gen.pc = "loop" /\ gen.i < gen.files
    /\ \E how \in Updated : gen' = AfterPass(gen, how)
    /\ GenOnly

PassSkips ==
    /\ gen.pc = "loop" /\ gen.i < gen.files
    /\ \E how \in NotUpdated : gen' = AfterPass(gen, how)
    /\ GenOnly

\* generate-schema.js:325-328: <<N, M, whether the notice is shown>>
Report(g) == <<g.lastSuccessfulFile + 1, g.files, g.lastSuccessfulFile < g.files - 1>>

LoopEnds ==
    /\ gen.pc = "loop" /\ gen.i = gen.files
    /\ gen' = [gen EXCEPT !.pc = "done", !.report = Report(gen)]
    /\ GenOnly

ToolIdle == disc = NoDisc /\ gen = NoGen

(***************************************************************************)
(* The specifications                                                      *)
(***************************************************************************)
InitRecord ==
    /\ \/ rec \in Atoms /\ sample = NoSample
       \/ sample \in Samples /\ rec = Build(sample)
    /\ out = Null /\ rphase = "build"
    /\ FileIdle /\ BatchIdle /\ ToolIdle
NextRecord ==
    WrapArray \/ ConsAtom \/ SnocAtom \/ WrapField \/ Transform \/ Retransform
SpecRecord == InitRecord /\ [][NextRecord]_vars

InitFile == RecIdle /\ FileStart /\ BatchIdle /\ ToolIdle
NextFile ==
    \/ ReadLine \/ InputEnd \/ InputError \/ TransformLine
    \/ DebugLogOpen \/ DebugLogOpenFail
    \/ OutputOpen \/ OutputOpenFail \/ WriteError \/ PipelineFinish
    \/ AwaitResolved \/ AwaitRejected \/ ValidateOk \/ ValidateFail
SpecFile == InitFile /\ [][NextFile]_vars

Init == RecIdle /\ FileIdle /\ BatchStart /\ ToolIdle
\* the event of some job in flight
SomeJobWritten          == \E i \in JobIds : JobWritten(i)
SomeJobValidated        == \E i \in JobIds : JobValidated(i)
SomeJobValidationFailed == \E i \in JobIds : JobValidationFailed(i)
SomeJobInputError       == \E i \in JobIds : JobInputError(i)
SomeJobReadError        == \E i \in JobIds : JobReadError(i)
SomeJobWriteError       == \E i \in JobIds : JobWriteError(i)

Next ==
    \/ Start \/ StartFails
    \/ SomeJobWritten \/ SomeJobValidated \/ SomeJobValidationFailed
    \/ SomeJobInputError \/ SomeJobReadError \/ SomeJobWriteError
    \/ Signal \/ ExitTimer \/ NewRun
Spec == Init /\ [][Next]_vars

InitPool == RecIdle /\ FileIdle /\ PoolStart /\ ToolIdle
SpecPool == InitPool /\ [][Next]_vars

InitDiscover == RecIdle /\ FileIdle /\ BatchIdle /\ DiscStart /\ gen = NoGen
NextDiscover == FilterNames \/ SortFiltered
SpecDiscover == InitDiscover /\ [][NextDiscover]_vars

InitSchema == RecIdle /\ FileIdle /\ BatchIdle /\ disc = NoDisc /\ GenStart
NextSchema == PassUpdates \/ PassSkips \/ LoopEnds
SpecSchema == InitSchema /\ [][NextSchema]_vars

(***************************************************************************)
(* Properties                                                              *)
(***************************************************************************)
RunOver == mainPc \in {"finished", "exited", "crashed"}
\* the run ended by a fault outside any job (getFilesToProcess threw): no
\* job list was ever made
TopLevelFault == mainPc = "crashed" /\ N = 0

\* C1: partial-failure isolation.  Whatever jobs fail, every other job of
\* the batch is still dispatched and ends succeeded or failed: when no
\* shutdown was signalled and the run is over, every job of the batch is in
\* a terminal state.
C1_EveryJobReachesTerminalState ==
    (RunOver /\ ~isShuttingDown) => \A i \in JobIds : job[i] \in Terminal

\* C2: a file job is succeeded only after the stream pipeline has completed
\* the write of the whole source and, after that, the post-write validation
\* of the artifact has passed; validation is started only on a completed
\* write, and succeeded is entered only from validating.
C2_SucceededOnlyAfterWriteThenValidation ==
    /\ [](jobEnd = "succeeded" =>
            /\ pipe = "ok" /\ promise = "resolved"
            /\ inState = "ended" /\ tq = Len(lines)
            /\ ValidationPasses)
    /\ [](jobEnd = "validating" => pipe = "ok" /\ promise = "resolved")
    /\ [][(jobEnd' = "succeeded" /\ jobEnd # "succeeded") => jobEnd = "validating"]_vars

C2_Witness == jobEnd = "succeeded" /\ Len(emitted) = 2 /\ errorCount = 1

\* C3: when a file job has ended failed and all stream activity of the job
\* is over (the pipeline has finished or failed, the open of the
\* destination has completed or failed), no output artifact exists.
StreamsQuiet == pipe # "running" /\ outFd # "opening"
C3_FailedJobLeavesNoArtifact ==
    (jobEnd = "failed" /\ StreamsQuiet) => ~artifact

Dispatched(o) == \E i \in JobIds : FileOf(i) = o /\ job[i] # "pending"
C5_SkipsOnlyValidatedOutputs ==
    (mainPc = "running" /\ cfg.resume /\ cfg.specific = 0) =>
        /\ \A o \in processedFiles : outDir[o] = "validated"
        /\ \A o \in Ordinals :
              hist[o] \in {"failed", "cut"} => \E i \in JobIds : FileOf(i) = o

\* C6: once the shutdown flag is set, no pending job is moved to
\* in-progress, in the sequential loop and in every worker chain.
C6_NoDispatchAfterShutdown ==
    [][(isShuttingDown /\ run' = run) =>
          \A i \in JobIds : job[i] = "pending" => job'[i] = "pending"]_vars

C6_Witness ==
    /\ isShuttingDown /\ mainPc = "finished"
    /\ \E i \in JobIds : job[i] = "pending"
    /\ \E i \in JobIds : job[i] \in Terminal

\* C7: a job that is in progress when the shutdown flag is set still runs
\* to completion before the process exits: at the exit after a shutdown no
\* job is in progress.
C7_InFlightJobsFinishBeforeExit ==
    mainPc = "exited" => InFlight(job) = {}

\* C8: per-line isolation.  For every consumed line on which the try block
\* throws, the counters and the output are those of the same lines without
\* it, with the error counter one higher; and the step that consumes such a
\* line adds one error, emits nothing, ends no stream and leaves the process
\* running, so that the lines after it are still transformed.
RemoveAt(s, i) == SubSeq(s, 1, i - 1) \o SubSeq(s, i + 1, Len(s))
ZeroCounts == [processedCount |-> 0, errorCount |-> 0, emitted |-> <<>>]
\* the transform function applied to the lines ls in order
RECURSIVE RunLines(_, _)
RunLines(st, ls) ==
    IF Len(ls) = 0 THEN st ELSE RunLines(LineStep(st, ls[1]), Tail(ls))

C8_PerLineIsolation ==
    /\ [](\A i \in 1..tq :
            IsBadLine(lines[i]) =>
                LET other == RunLines(ZeroCounts, RemoveAt(SubSeq(lines, 1, tq), i))
                IN  /\ processedCount = other.processedCount
                    /\ emitted = other.emitted
                    /\ errorCount = other.errorCount + 1)
    /\ [][(tq' = tq + 1 /\ IsBadLine(lines[tq + 1])) =>
             /\ errorCount' = errorCount + 1
             /\ emitted' = emitted /\ processedCount' = processedCount
             /\ pipe' = pipe /\ tEnded' = tEnded /\ promise' = promise
             /\ inState' = inState
             /\ ~Crashed']_vars

C8_Witness ==
    /\ Len(lines) = 3 /\ tq = 3
    /\ lines[1].raw = "json" /\ IsBadLine(lines[2]) /\ lines[3].raw = "json"
    /\ errorCount = 1 /\ Len(emitted) = 2

\* C9: on normal completion the processor returns processedCount = the
\* number of lines parsed, transformed and written, errorCount = the number
\* of non-blank lines that failed; blank lines are in neither, and the two
\* add up to the number of non-blank lines.
LinesWith(P(_)) == Cardinality({i \in 1..Len(lines) : P(lines[i])})
IsRecordLine(line) == line.raw = "json"
IsNonBlank(line)   == ~IsBlank(line)
C9_CountsOnCompletion ==
    promise = "resolved" =>
        /\ result.processedCount = LinesWith(IsRecordLine)
        /\ result.processedCount = Len(emitted)
        /\ result.errorCount = LinesWith(IsBadLine)
        /\ result.processedCount + result.errorCount = LinesWith(IsNonBlank)

C9_Witness ==
    /\ promise = "resolved" /\ Len(lines) = 3
    /\ LinesWith(IsBlank) = 1 /\ LinesWith(IsBadLine) = 1
    /\ result.processedCount = 1

\* C10: for every input record (a JSON object) outside the date-parts
\* convention, the emitted record has no array with an array as a direct
\* element.
C10_NoNestedArraysEmitted ==
    (rphase = "done" /\ IsObj(rec) /\ ~MentionsKey(rec, K_dateparts)) =>
        ~HasNestedArray(out)

\* the value emitted at the place of the sample's date
EmittedDate ==
    LET o == Unwrap(sample.wrap, out)
    IN  CASE sample.place = K_dateparts -> Field(o, K_date)
          [] sample.place = K_license   ->
                LET l == Field(o, K_license)
                IN  IF IsArr(l) /\ Len(l.v) = 1 THEN Field(l.v[1], K_start) ELSE Null
          [] OTHER -> Field(o, ReplaceDashes(sample.place))
\* YYYY-MM-DD: ten characters, digits around the two hyphens
IsIsoForm(s) ==
    /\ Len(s) = 10 /\ s[5] = "-" /\ s[8] = "-"
    /\ \A i \in {1, 2, 3, 4, 6, 7, 9, 10} : IsDigit(s[i])
\* the two digits of a month or day: 01 when it is missing or not numeric
TwoDigits(v) ==
    IF ParseInt(v).nan THEN <<"0", "1">> ELSE PadStart(NumToChars(ParseInt(v).n), 2)
DateCase ==
    /\ rphase = "done" /\ sample.fam = "date"
    /\ sample.dp.shape \in {"Y", "YM", "YMD", "flat"}

\* C11: for the date-part inputs [[Y]], [[Y,M]], [[Y,M,D]] and [Y,M,D] with
\* an integer-parseable year, at the top-level date-parts field, at each
\* named sub-object and at license[].start, the emitted value is a string
\* YYYY-MM-DD of four, two and two digits, with 01 for a missing or
\* non-numeric month or day.
C11_DateIsZeroPaddedYMD ==
    (DateCase /\ sample.dp.y \in ParseableYears) =>
        /\ EmittedDate.t = "str"
        /\ IsIsoForm(EmittedDate.s)
        /\ SubSeq(EmittedDate.s, 6, 7) = TwoDigits(sample.dp.m)
        /\ SubSeq(EmittedDate.s, 9, 10) = TwoDigits(sample.dp.d)

\* C12: when the year of a date-part array does not parse as an integer, or
\* the array is empty, the date-bearing field is removed and no date string
\* is emitted in its place; and no emitted record has, at any depth, a key
\* date-parts or date_parts.
K_date_parts == ReplaceDashes(K_dateparts)
\* the sample's object with its date-bearing field removed
DateObjectWithout(place) ==
    IF place = K_license
    THEN Obj(<<Entry(K_n, Num(1)), Entry(K_license, Arr(<<Obj(<<>>)>>))>>)
    ELSE Obj(<<Entry(K_n, Num(1))>>)
NoDateCase ==
    /\ rphase = "done" /\ sample.fam = "date"
    /\ \/ sample.dp.shape \in {"empty", "emptyNested"}
       \/ sample.dp.y \in UnparseableYears
C12_UnparseableDateIsRemoved ==
    /\ NoDateCase => out = Wrap(sample.wrap, DateObjectWithout(sample.place))
    /\ rphase = "done" =>
          ~MentionsKey(out, K_dateparts) /\ ~MentionsKey(out, K_date_parts)

C12_Witness ==
    /\ NoDateCase /\ sample.place = K_issued /\ sample.wrap = "arr"
    /\ sample.dp.shape = "YMD" /\ sample.dp.y = Null /\ sample.dp.m = Num(3)
    /\ out = Obj(<<Entry(K_x, Arr(<<Obj(<<Entry(K_n, Num(1))>>)>>))>>)

\* C13: no object key of the emitted record, at any depth, contains a
\* hyphen; a key with hyphens is emitted as the same key with every hyphen
\* replaced by an underscore, and every emitted key is such a renamed input
\* key or one of the two keys the transformer creates (date, year_string).
RECURSIVE KeysOf(_)
KeysOf(v) ==
    IF IsArr(v) THEN UNION {KeysOf(v.v[i]) : i \in 1..Len(v.v)}
    ELSE IF IsObj(v) THEN
        {v.v[i].k : i \in 1..Len(v.v)} \cup UNION {KeysOf(v.v[i].v) : i \in 1..Len(v.v)}
    ELSE {}
HasHyphen(key) == \E i \in 1..Len(key) : key[i] = "-"
Underscored(key) == [i \in 1..Len(key) |-> IF key[i] = "-" THEN "_" ELSE key[i]]
C13_NoHyphenInEmittedKeys ==
    rphase = "done" =>
        /\ \A k \in KeysOf(out) : ~HasHyphen(k)
        /\ KeysOf(out) \subseteq {Underscored(k) : k \in KeysOf(rec)} \cup {K_date, K_yearstr}
        /\ sample.fam = "key" =>
              out = Wrap(sample.wrap, KeyObject(sample.renamed))

C13_Witness ==
    /\ rphase = "done" /\ sample.fam = "key" /\ sample.wrap = "arr"
    /\ sample.key = <<"a", "-", "-", "b", "-", "c", "-">>
    /\ <<"a", "_", "_", "b", "_", "c", "_">> \in KeysOf(out)

\* C14: in the emitted record no object field is null and no array element
\* is null; a null-valued key is dropped, unless the key contains
\* colidentifier or starts and ends with '*', and then its value is the
\* empty string; null elements of an array are removed and nothing is put
\* in their place.
RECURSIVE HasNullInside(_)
HasNullInside(v) ==
    IF IsArr(v) THEN \E i \in 1..Len(v.v) : v.v[i].t = "null" \/ HasNullInside(v.v[i])
    ELSE IF IsObj(v) THEN
        \E i \in 1..Len(v.v) : v.v[i].v.t = "null" \/ HasNullInside(v.v[i].v)
    ELSE FALSE
KeptNullKeys == {K_colid, <<"x">> \o K_colid \o <<"y">>, <<"*", "a", "*">>, <<"*">>}
\* what NullObject(k) is to be emitted as
CleanedNullObject(k) ==
    IF k \in KeptNullKeys
    THEN Obj(<<Entry(K_n, Num(1)), Entry(k, Str(<<>>)),
               Entry(K_list, Arr(<<Num(2), Obj(<<Entry(k, Str(<<>>))>>)>>))>>)
    ELSE Obj(<<Entry(K_n, Num(1)), Entry(K_list, Arr(<<Num(2), Obj(<<>>)>>))>>)
C14_NoNullsEmitted ==
    rphase = "done" =>
        /\ ~HasNullInside(out)
        /\ sample.fam = "null" =>
              out = Wrap(sample.wrap, CleanedNullObject(sample.key))

C14_Witness ==
    /\ rphase = "done" /\ sample.fam = "null" /\ sample.wrap = "obj"
    /\ sample.key = <<"*", "a", "*">>
    /\ HasNullInside(rec)
    /\ Field(Unwrap("obj", out), <<"*", "a", "*">>) = Str(<<>>)

\* C15: at any nesting depth a year that is a non-numeric string is moved
\* unchanged to year_string and year is removed; a year that is a string of
\* digits is replaced by the integer it stands for and no year_string is
\* made; no emitted record has a year field whose value is a string.
RECURSIVE HasStringYear(_)
HasStringYear(v) ==
    IF IsArr(v) THEN \E i \in 1..Len(v.v) : HasStringYear(v.v[i])
    ELSE IF IsObj(v) THEN
        \E i \in 1..Len(v.v) :
            \/ v.v[i].k = K_year /\ v.v[i].v.t = "str"
            \/ HasStringYear(v.v[i].v)
    ELSE FALSE
YearCase == rphase = "done" /\ sample.fam = "year"
C15_YearStrings ==
    /\ (YearCase /\ sample.year \in NonNumericYears) =>
          out = Wrap(sample.wrap,
                     Obj(<<Entry(K_n, Num(1)), Entry(K_yearstr, sample.year)>>))
    /\ (YearCase /\ sample.int # Null) =>
          out = Wrap(sample.wrap, Obj(<<Entry(K_n, Num(1)), Entry(K_year, sample.int)>>))
    /\ rphase = "done" => ~HasStringYear(out)

C15_Witness ==
    /\ YearCase /\ sample.wrap = "arr"
    /\ sample.year = Str(<<"2", "0", "2", "0", "-", "2", "0", "2", "1">>)
    /\ Field(Unwrap("arr", out), K_yearstr) = sample.year
    /\ Field(Unwrap("arr", out), K_year) = Null

\* C16: in every emitted record a year field, if present, is an integer,
\* whatever JSON type the input value of year has.
RECURSIVE HasNonIntegerYear(_)
HasNonIntegerYear(v) ==
    IF IsArr(v) THEN \E i \in 1..Len(v.v) : HasNonIntegerYear(v.v[i])
    ELSE IF IsObj(v) THEN
        \E i \in 1..Len(v.v) :
            \/ v.v[i].k = K_year /\ v.v[i].v.t # "num"
            \/ HasNonIntegerYear(v.v[i].v)
    ELSE FALSE
C16_YearIsAlwaysInteger ==
    rphase = "done" => ~HasNonIntegerYear(out)

\* C17: idempotence.  The transformer applied to a record (a JSON object)
\* it has emitted gives that record again: T(T(r)) = T(r).
C17_Idempotent ==
    (rphase = "again" /\ IsObj(rec)) => out = rec

\* C18: every emitted line is a single JSON object, whatever value the
\* input line decodes to (an object, an array, a number, a string, a
\* boolean, null).
C18_EmittedLineIsAnObject ==
    rphase = "done" => IsObj(out)

\* C19: summary counts.  At every moment of a run the files-succeeded and
\* files-failed counters are the numbers of jobs that have ended succeeded
\* and failed, each job counted once; when the batch has run to its end
\* with no shutdown their sum is the number of discovered jobs.
Ended(how) == Cardinality({i \in JobIds : job[i] = how})
C19_SummaryCountsMatchJobs ==
    mainPc \in {"running", "finished", "exited", "crashed"} =>
        /\ bar.successful = Ended("succeeded")
        /\ bar.failed = Ended("failed")
        /\ (mainPc = "finished" /\ ~isShuttingDown) =>
               bar.successful + bar.failed = N

\* C20: a job whose post-write validation failed (here: the output
\* decompresses to zero bytes, no line of the input gave a record) is
\* handled as a processing failure is: its output artifact is deleted, the
\* job is failed and counted as failed, and the batch goes on with the next
\* job of its loop or worker chain unless shutdown was signalled.
ValidationFailedJob(i) ==
    /\ mainPc # "init"
    /\ kind[FileOf(i)] = "empty"
    /\ job[i] \notin {"pending", "processing", "validating"}
C20_ValidationFailureIsAFailure ==
    \A i \in JobIds :
        ValidationFailedJob(i) =>
            /\ job[i] = "failed"
            /\ outDir[FileOf(i)] = "absent"
            /\ bar.failed = Ended("failed")
            /\ (NextIndex(i) < N /\ ~isShuttingDown) => job[NextIndex(i)] # "pending"

\* job i has met a stream-level error on its source side
SourceErrorJob(i) ==
    /\ kind[FileOf(i)] \in {"corrupt", "unreadable"}
    /\ job[i] # "pending"

\* C21: a stream-level error on the source side (the read of the file or its
\* decompression) ends as that job's failed status with the partial artifact
\* deleted, and never aborts the process: no run with such a job crashes, and
\* once the job is over it is failed and has left no artifact.
C21_SourceErrorIsOnlyAJobFailure ==
    \A i \in JobIds :
        SourceErrorJob(i) =>
            /\ mainPc # "crashed"
            /\ mainPc = "finished" => (job[i] = "failed" /\ outDir[FileOf(i)] = "absent")

\* C22: a batch that runs to normal completion (processFiles returned, no
\* shutdown was asked for) ends the process with exit status zero however
\* many of its jobs failed; a fault outside any job that reaches main's
\* catch ends it with a non-zero status.
C22_ExitStatus ==
    /\ (mainPc = "finished" /\ ~isShuttingDown) => exitCode = <<0>>
    /\ TopLevelFault => (exitCode # <<>> /\ exitCode # <<0>>)

\* a batch of three jobs ran to normal completion and every job failed
C22_Witness ==
    /\ mainPc = "finished" /\ ~isShuttingDown /\ N = MaxFiles
    /\ \A i \in JobIds : job[i] = "failed"
    /\ exitCode = <<0>>

\* the pool size the machine's number of CPUs calls for
PoolSize == IF cfg.cpus - 1 > 1 THEN cfg.cpus - 1 ELSE 1
Min(a, b) == IF a < b THEN a ELSE b
\* the job that the worker of job j handled just before j
Previous(j) == IF PoolSize = 1 \/ N = 1 THEN j - 1 ELSE j - PoolSize

\* C23: bounded concurrency.  At every moment of a run at most
\* min(P, number of jobs) jobs are in progress, P = max(1, CPUs - 1); and
\* after the initial batch a job is moved from pending to in-progress only
\* in the step in which the previous job of its worker reaches a terminal
\* state.
C23_BoundedConcurrency ==
    /\ [](mainPc # "init" => Cardinality(InFlight(job)) <= Min(PoolSize, N))
    /\ [][mainPc = "running" =>
            \A j \in JobIds :
                (job[j] = "pending" /\ job'[j] # "pending") =>
                    /\ Previous(j) \in JobIds
                    /\ job[Previous(j)] \notin Terminal
                    /\ job'[Previous(j)] \in Terminal]_vars

\* a pool of two is full, and one of its workers is on its second job
C23_Witness ==
    /\ mainPc = "running" /\ PoolSize = 2 /\ N = 3
    /\ Cardinality(InFlight(job)) = 2
    /\ job[0] \in Terminal /\ job[2] = "processing"

\* C24: static round-robin partition.  With pool size P every job that has
\* left pending was dispatched exactly once, by worker (index mod P), after
\* the earlier jobs of that worker had ended; a run that completes without
\* shutdown has dispatched every index; and a job in a terminal state stays
\* in it for the rest of the run (a failed job is not retried).
C24_RoundRobinPartition ==
    /\ [](mainPc # "init" =>
            \A j \in JobIds :
                /\ Len(disp[j]) = (IF job[j] = "pending" THEN 0 ELSE 1)
                /\ job[j] # "pending" =>
                      /\ disp[j] = <<j % PoolSize>>
                      /\ \A i \in JobIds :
                            (i < j /\ i % PoolSize = j % PoolSize) => job[i] \in Terminal
                /\ (mainPc = "finished" /\ ~isShuttingDown) => job[j] # "pending")
    /\ [][(mainPc = "running" /\ run' = run) =>
            \A j \in JobIds : job[j] \in Terminal => job'[j] = job[j]]_vars

\* a pool of two has ended a batch of three: worker 0 ran jobs 0 and 2,
\* worker 1 ran job 1, and the failed job 0 was not dispatched again
C24_Witness ==
    /\ mainPc = "finished" /\ PoolSize = 2 /\ N = 3
    /\ disp = (0 :> <<0>> @@ 1 :> <<1>> @@ 2 :> <<0>>)
    /\ job[0] = "failed" /\ job[1] = "succeeded" /\ job[2] = "succeeded"

\* C25 as stated: for any two jobs i < j of a run, job i is dispatched no
\* later than job j.
C25_Original ==
    mainPc # "init" =>
        \A i, j \in JobIds : (i < j /\ job[j] # "pending") => job[i] # "pending"

\* C25 as amended: job i is dispatched no later than job j > i when the
\* two are jobs of the same worker (always so in sequential mode) or i is
\* one of the first min(P, N) jobs.
C25_DispatchOrderPerWorker ==
    mainPc # "init" =>
        \A i, j \in JobIds :
            ( /\ i < j /\ job[j] # "pending"
              /\ (i < PoolSize \/ i % PoolSize = j % PoolSize) )
            => job[i] # "pending"

\* worker 1 has ended job 1 and dispatched job 3 while worker 0 is still on
\* job 0 and job 2 waits
C25_Witness ==
    /\ mainPc = "running" /\ PoolSize = 2 /\ N = 4
    /\ job[0] = "processing" /\ job[1] \in Terminal
    /\ job[2] = "pending" /\ job[3] = "processing"

\* C26: when the pool size is 1 or the batch has exactly one job, at most
\* one job is in progress at any time, and a job other than the first has
\* left pending only if the job before it in the list is in a terminal
\* state.
C26_SequentialExecution ==
    (mainPc # "init" /\ (PoolSize = 1 \/ N = 1)) =>
        /\ Cardinality(InFlight(job)) <= 1
        /\ \A i \in JobIds :
              (i + 1 \in JobIds /\ job[i + 1] # "pending") => job[i] \in Terminal

\* a machine with a pool of one is on the second of three jobs
C26_Witness ==
    /\ mainPc = "running" /\ PoolSize = 1 /\ N = 3
    /\ job[0] \in Terminal /\ job[1] = "validating" /\ job[2] = "pending"

\* the backlog the pipeline is to stay under whatever the length of the
\* file (the streams' high-water mark, scaled to the files of the model)
MaxBacklog == 2
\* lines handed to transformStream.write and not yet taken by the transform
Backlog == rd - tq

\* C27: backpressure.  The number of lines read from the source and not yet
\* consumed by the transform stage never exceeds a bound that does not
\* depend on the length of the file: the line reader hands over no further
\* line while the stages behind it are at that bound.
C27_BoundedBacklog == Backlog <= MaxBacklog

\* the aggregate counters: files succeeded and failed, records processed,
\* records failed
Counters == <<bar.successful, bar.failed, bar.totalRecords, bar.totalErrors,
              tracker.successful, tracker.failed, tracker.totalRecords,
              tracker.totalErrors>>

\* C28: during a run the aggregate counters change only in a step in which
\* a job reaches succeeded or failed; no counter changes in the step that
\* takes a job from the end of its write into its post-write validation.
C28_CountersChangeAtCompletion ==
    [][(mainPc = "running" /\ run' = run /\ Counters' # Counters) =>
          \E i \in JobIds : job[i] \notin Terminal /\ job'[i] \in Terminal]_vars

\* C29: when processFiles has run a batch to its end, the summary written
\* (files succeeded, files failed, records processed, errors) is the one
\* written with live progress reporting enabled, whether reporting is
\* enabled or not.
C29_SummaryIndependentOfReporting ==
    (mainPc = "finished" /\ N > 0) => summary = Summary(TRUE, bar, N)

\* C30: debug mode changes no outcome: a run with the debug flag set is never
\* ended by its debug capture, so every job ends, and every output line is
\* written, as in the run without the flag
C30_DebugChangesNoOutcome == debugMode => ~Crashed

\* C31: within one file the records are written in the order of their source
\* lines: at every moment the output is, in order, one chunk for each valid
\* line consumed so far, chunks are only ever added at the end, and each
\* chunk is one line of text, ended by its only line feed.
RECURSIVE RecordsOf(_)
RecordsOf(ls) ==
    IF Len(ls) = 0 THEN <<>>
    ELSE (IF ls[1].raw = "json" THEN <<TransformRecord(ls[1].val)>> ELSE <<>>)
             \o RecordsOf(Tail(ls))
OneLine(t) == t[Len(t)] = "\n" /\ \A k \in 1..(Len(t) - 1) : t[k] # "\n"

C31_OutputInSourceOrder ==
    /\ [](/\ emitted = RecordsOf(SubSeq(lines, 1, tq))
          /\ \A i \in 1..Len(emitted) : OneLine(OutputText(emitted[i])))
    /\ [][/\ Len(emitted') >= Len(emitted)
          /\ SubSeq(emitted', 1, Len(emitted)) = emitted]_vars

C31_Witness ==
    /\ pipe = "ok" /\ Len(lines) = 3 /\ Len(emitted) = 2
    /\ lines[1].raw = "json" /\ IsBlank(lines[2]) /\ lines[3].raw = "json"
    /\ lines[1].val # lines[3].val
    /\ lines[3].val = Obj(<<Entry(K_x, Str(<<"a", "\n", "b">>))>>)

\* C32: the line number reported with a per-line error is the 1-based
\* position of the failing line in the source: the numbers reported so far
\* are, in order, the positions of the failing lines consumed so far.
RECURSIVE PositionsFrom(_, _)
PositionsFrom(ls, at) ==
    IF Len(ls) = 0 THEN <<>>
    ELSE (IF IsBadLine(ls[1]) THEN <<at>> ELSE <<>>) \o PositionsFrom(Tail(ls), at + 1)

C32_ErrorLineIsSourcePosition ==
    reported = PositionsFrom(SubSeq(lines, 1, tq), 1)

\* C33: discovery keeps exactly the names ending in .jsonl.gz and puts the
\* files named <ordinal>.jsonl.gz in ascending order of the ordinal's
\* numeric value.
IsOrdinalName(file) ==
    /\ EndsWith(file, Suffix)
    /\ Len(FirstPart(file)) > 0 /\ \A k \in 1..Len(FirstPart(file)) : IsDigit(FirstPart(file)[k])
    /\ file = FirstPart(file) \o Suffix
OrdinalOf(file) == ParseIntChars(FirstPart(file)).n
InSeq(x, sq) == \E k \in 1..Len(sq) : sq[k] = x

C33_NumericDiscoveryOrder ==
    disc.pc = "sorted" =>
        /\ \A k \in 1..Len(disc.dir) :
              InSeq(disc.dir[k], disc.allFiles) <=> EndsWith(disc.dir[k], Suffix)
        /\ \A k \in 1..Len(disc.allFiles) : InSeq(disc.allFiles[k], disc.dir)
        /\ \A a, b \in 1..Len(disc.allFiles) :
              (a < b /\ IsOrdinalName(disc.allFiles[a]) /\ IsOrdinalName(disc.allFiles[b]))
                  => OrdinalOf(disc.allFiles[a]) <= OrdinalOf(disc.allFiles[b])

\* C37: the number N of 'Successfully processed N of M file(s)' is the
\* number of files whose schema update succeeded, and the notice about
\* skipped files is shown exactly when some file was skipped or failed.
Succeeded(g) == {k \in 1..Len(g.ended) : g.ended[k] \in Updated}
C37_ReportCountsSuccesses ==
    gen.pc = "done" =>
        /\ gen.report[1] = Cardinality(Succeeded(gen))
        /\ gen.report[2] = Len(gen.ended)
        /\ gen.report[3] <=> (Cardinality(Succeeded(gen)) < Len(gen.ended))

\* C34: a job that ends failed adds nothing to the totals of the final
\* summary: the records and the errors shown are the sums of processedCount
\* and errorCount over the jobs that succeeded.
RECURSIVE SumOver(_, _)
SumOver(S, g) ==
    IF S = {} THEN 0
    ELSE LET x == CHOOSE y \in S : TRUE IN g[x] + SumOver(S \ {x}, g)
SucceededJobs == {i \in JobIds : job[i] = "succeeded"}
RecordsOfJob == [i \in JobIds |-> Counts(FileOf(i)).processedCount]
ErrorsOfJob  == [i \in JobIds |-> Counts(FileOf(i)).errorCount]

C34_FailedJobAddsNothing ==
    (mainPc = "finished" /\ summary.report # <<>>) =>
        /\ summary.report[3] = SumOver(SucceededJobs, RecordsOfJob)
        /\ summary.report[4] = SumOver(SucceededJobs, ErrorsOfJob)

\* C35: whatever makes a job fail, an exception that escapes processFile
\* included, the step that ends the job counts one more failed job and
\* leaves the batch running (or finished, when it was the last job), with
\* one worker as with several.
EndsFailed(i) ==
    /\ job[i] \in {"processing", "validating"}
    /\ i \in DOMAIN job' /\ job'[i] = "failed"
    /\ kind[FileOf(i)] # "unreadable"
C35_EscapedExceptionIsOneFailure ==
    [][\A i \in JobIds :
          EndsFailed(i) => /\ mainPc' \in {"running", "finished"}
                           /\ bar'.failed = bar.failed + 1]_vars

\* C36: key renaming loses no field: the emitted record has as many keys,
\* counted over all its objects, as the record that enters the rename stage.
RECURSIVE KeyCount(_)
RECURSIVE KeyCountOfAll(_)
KeyCountOfAll(vs) ==
    IF Len(vs) = 0 THEN 0 ELSE KeyCount(vs[1]) + KeyCountOfAll(Tail(vs))
KeyCount(v) ==
    IF IsArr(v) THEN KeyCountOfAll(v.v)
    ELSE IF IsObj(v) THEN Len(v.v) + KeyCountOfAll([k \in 1..Len(v.v) |-> v.v[k].v])
    ELSE 0

C36_RenameKeepsEveryField ==
    rphase = "done" => KeyCount(out) = KeyCount(BeforeRename(rec))

====
